---- MODULE Spec2Model ----
(***************************************************************************)
(* Ledger apply engine of stellar-core: the live state and the hot archive *)
(* with TTL entries, the InvokeHostFunction and RestoreFootprint appliers  *)
(* and the eviction step of a ledger close.                                *)
(***************************************************************************)
EXTENDS Integers, Sequences, FiniteSets, TLC

VARIABLES
    ledgerVersion,   \* protocol version of the ledger header
    ledgerSeq,       \* sequence number of the ledger being applied (lcl + 1)
    live,            \* committed LiveStore (last closed ledger): key -> data
    hot,             \* committed HotArchive (last closed ledger): key -> data
    ltx,             \* LiveStore as seen through the ledger's LedgerTxn
    restoredHot,     \* keys restored from the hot archive in this ledger
    restoredLive,    \* keys restored from the live state in this ledger
    nOps,            \* operations applied so far
    last,            \* what the last operation was and how it ended
    evictedPayload,  \* history: the data each key had when it was last evicted
    commit,          \* what ArchivedStateConsistency was given and what it returned
    startup,         \* the startup scan: the complete states it loads, what it returned
    manager,         \* InvariantManagerImpl: its members and the event it handles
    metering,        \* the byte counters of one operation at the width of the counters
    inflation        \* InflationOpFrame: header, accounts, result of the operation

vars == <<ledgerVersion, ledgerSeq, live, hot, ltx, restoredHot, restoredLive, nOps,
          last, evictedPayload, commit, startup, manager, metering, inflation>>

----------------------------------------------------------------------------
(* Bounds of the model *)

MaxLedgerSeq == 5     \* ledgers applied in a run
MaxOps == 2            \* operations applied in a run
MaxFootprint == 2      \* keys in the footprint of an operation
MaxReturned == 2       \* entries in the output of a host that is not trusted
CounterBits == 4       \* bits of a byte counter (32 in the code)
MaxMetered == 3        \* sizes added to the counters of one operation
MaxInflations == 2     \* inflation operations applied
INFLATION_NUM_WINNERS == 2  \* winners of an inflation (2000 in the code)
INT64_MAX == 12000     \* the largest balance (2^63 - 1 in the code)

----------------------------------------------------------------------------
(* Protocol versions and network configuration *)

FIRST_PROTOCOL_SUPPORTING_PERSISTENT_EVICTION == 23
AUTO_RESTORE_PROTOCOL_VERSION == 23
V_23 == 23
V_24 == 24
ProtocolVersions == {22, 23}

protocolVersionStartsFrom(v, p) == v >= p
protocolVersionIsBefore(v, p) == v < p

minPersistentTTL == 2
minTemporaryTTL == 1
maxEntryTTL == 3
txMemoryLimit == 1
txMaxContractEventsSizeBytes == 2
maxContractDataEntrySizeBytes == 2
maxContractSizeBytes == 1

----------------------------------------------------------------------------
(* Keys and entries *)

P1 == [type |-> "CONTRACT_DATA", dur |-> "PERSISTENT", id |-> 1]
P2 == [type |-> "CONTRACT_CODE", dur |-> "PERSISTENT", id |-> 2]
T1 == [type |-> "CONTRACT_DATA", dur |-> "TEMPORARY", id |-> 3]
A1 == [type |-> "ACCOUNT", dur |-> "NONE", id |-> 4]

DataKeys == {P1, P2, T1, A1}

isSorobanEntry(lk) == lk.type \in {"CONTRACT_DATA", "CONTRACT_CODE"}
isPersistentEntry(lk) == isSorobanEntry(lk) /\ lk.dur = "PERSISTENT"
isTemporaryEntry(lk) == lk.type = "CONTRACT_DATA" /\ lk.dur = "TEMPORARY"
isContractCodeEntry(lk) == lk.type = "CONTRACT_CODE"

getTTLKey(lk) == [type |-> "TTL", dur |-> "NONE", id |-> lk.id]

SorobanKeys == {k \in DataKeys : isSorobanEntry(k)}
TTLKeys == {getTTLKey(k) : k \in SorobanKeys}
AllKeys == DataKeys \cup TTLKeys

\* The data key a TTL key belongs to.
DataKeyOf(ttlKey) == CHOOSE k \in SorobanKeys : getTTLKey(k) = ttlKey

isLive(liveUntilLedgerSeq, seq) == liveUntilLedgerSeq >= seq

\* Size of the XDR encoding of an entry: the payload is its length.
EntrySize(lk, data) == IF lk.type = "TTL" THEN 1 ELSE data

EmptyMap == [k \in {} |-> 0]
Put(m, k, v) == [x \in (DOMAIN m) \cup {k} |-> IF x = k THEN v ELSE m[x]]
Del(m, k) == [x \in (DOMAIN m) \ {k} |-> m[x]]
Has(m, k) == k \in DOMAIN m

\* validateContractLedgerEntry: oversize contract code or data is rejected.
validateContractLedgerEntry(lk, entrySize) ==
    /\ lk.type = "CONTRACT_CODE" => entrySize <= maxContractSizeBytes
    /\ lk.type = "CONTRACT_DATA" => entrySize <= maxContractDataEntrySizeBytes

----------------------------------------------------------------------------
(* LedgerTxn operations used by the appliers *)

\* restoreFromHotArchive: creates the entry and its TTL entry in the txn
\* and records the restoration; the archive itself changes at the commit.
restoreFromHotArchive(c, lk, le, restoredLiveUntilLedger) ==
    [c EXCEPT !.ltx = Put(Put(c.ltx, lk, le), getTTLKey(lk), restoredLiveUntilLedger),
              !.rHot = c.rHot \cup {lk}]

\* restoreFromLiveBucketList: the entry is still in the live state; only
\* its TTL entry is rewritten, and the restoration is recorded.
restoreFromLiveBucketList(c, lk, le, restoredLiveUntilLedger) ==
    [c EXCEPT !.ltx = Put(Put(c.ltx, lk, le), getTTLKey(lk), restoredLiveUntilLedger),
              !.rLive = c.rLive \cup {lk}]

----------------------------------------------------------------------------
(* InvokeHostFunctionOpFrame: ApplyHelper *)

\* The state of one ApplyHelper: the operation's LedgerTxn view, what it
\* restored, its metrics, the keys whose entries go to the host, and the
\* result code ("NONE" while no check has failed).
NewHelper(view) ==
    [ltx |-> view, rHot |-> {}, rLive |-> {},
     mLedgerReadByte |-> 0, mReadEntry |-> 0, mLedgerWriteByte |-> 0,
     mEmitEventByte |-> 0, bufs |-> {}, rentChanges |-> <<>>, code |-> "NONE",
     ret |-> FALSE]

\* A check failed: the result code is set and the applier returns false.
Fail(c, code) == [c EXCEPT !.code = code, !.ret = FALSE]

\* The applier sets the code of success and returns true.
Succeed(c, code) == [c EXCEPT !.code = code, !.ret = TRUE]

\* A faulty AutorestoredEntries: the listed indices are read one off.
AutorestoredEntries_shifted(op) ==
    IF op.ext.v # 1 THEN <<>>
    ELSE IF op.ext.archivedSorobanEntries = {} THEN <<>>
    ELSE [i \in 1..Len(op.readWrite) |-> (i + 1) \in op.ext.archivedSorobanEntries]

\* The constructor's bitmap over readWrite (indices are 1-based here).
AutorestoredEntries(op) ==
    IF op.ext.v # 1 THEN <<>>
    ELSE IF op.ext.archivedSorobanEntries = {} THEN <<>>
    ELSE [i \in 1..Len(op.readWrite) |-> i \in op.ext.archivedSorobanEntries]

checkIfReadWriteEntryIsMarkedForAutorestore(op, index) ==
    IF AutorestoredEntries(op) = <<>> THEN FALSE
    ELSE AutorestoredEntries(op)[index]

\* A faulty meterDiskReadResource: the comparison is turned around.
meterDiskReadResource_reversed(c, op, lk, entrySize) ==
    LET read == c.mLedgerReadByte + entrySize
        c1 == [c EXCEPT !.mReadEntry = c.mReadEntry + 1, !.mLedgerReadByte = read]
    IN IF read < op.diskReadBytes
       THEN Fail(c1, "RESOURCE_LIMIT_EXCEEDED")
       ELSE c1

meterDiskReadResource(c, op, lk, entrySize) ==
    LET read == c.mLedgerReadByte + entrySize
        c1 == [c EXCEPT !.mReadEntry = c.mReadEntry + 1, !.mLedgerReadByte = read]
    IN IF op.diskReadBytes < read
       THEN Fail(c1, "RESOURCE_LIMIT_EXCEEDED")
       ELSE c1

\* A faulty handleArchivedEntry: a marked index restores a read-only key too.
handleArchivedEntry_ignoresReadOnly(c, op, lk, le, isReadOnly, restoredLiveUntilLedger, isHotArchiveEntry, index) ==
    IF /\ protocolVersionStartsFrom(ledgerVersion,
                                    FIRST_PROTOCOL_SUPPORTING_PERSISTENT_EVICTION)
       /\ checkIfReadWriteEntryIsMarkedForAutorestore(op, index)
    THEN LET entrySize == EntrySize(lk, le) IN
         IF ~validateContractLedgerEntry(lk, entrySize)
         THEN Fail(c, "RESOURCE_LIMIT_EXCEEDED")
         ELSE LET c1 == meterDiskReadResource(c, op, lk, entrySize) IN
              IF c1.code # "NONE" THEN c1
              ELSE LET c2 == IF isHotArchiveEntry
                             THEN restoreFromHotArchive(c1, lk, le, restoredLiveUntilLedger)
                             ELSE restoreFromLiveBucketList(c1, lk, le, restoredLiveUntilLedger)
                   IN [c2 EXCEPT !.bufs = c2.bufs \cup {lk}]
    ELSE Fail(c, "ENTRY_ARCHIVED")

\* A faulty handleArchivedEntry: an entry of the hot archive is restored as
\* if it were still in the live state, so the archive is never told.
handleArchivedEntry_restoresAsLive(c, op, lk, le, isReadOnly, restoredLiveUntilLedger, isHotArchiveEntry, index) ==
    IF /\ ~isReadOnly
       /\ protocolVersionStartsFrom(ledgerVersion,
                                    FIRST_PROTOCOL_SUPPORTING_PERSISTENT_EVICTION)
       /\ checkIfReadWriteEntryIsMarkedForAutorestore(op, index)
    THEN LET entrySize == EntrySize(lk, le) IN
         IF ~validateContractLedgerEntry(lk, entrySize)
         THEN Fail(c, "RESOURCE_LIMIT_EXCEEDED")
         ELSE LET c1 == meterDiskReadResource(c, op, lk, entrySize) IN
              IF c1.code # "NONE" THEN c1
              ELSE LET c2 == restoreFromLiveBucketList(c1, lk, le, restoredLiveUntilLedger)
                   IN [c2 EXCEPT !.bufs = c2.bufs \cup {lk}]
    ELSE Fail(c, "ENTRY_ARCHIVED")

handleArchivedEntry(c, op, lk, le, isReadOnly, restoredLiveUntilLedger, isHotArchiveEntry, index) ==
    IF /\ ~isReadOnly
       /\ protocolVersionStartsFrom(ledgerVersion,
                                    FIRST_PROTOCOL_SUPPORTING_PERSISTENT_EVICTION)
       /\ checkIfReadWriteEntryIsMarkedForAutorestore(op, index)
    THEN LET entrySize == EntrySize(lk, le) IN
         IF ~validateContractLedgerEntry(lk, entrySize)
         THEN Fail(c, "RESOURCE_LIMIT_EXCEEDED")
         ELSE LET c1 == meterDiskReadResource(c, op, lk, entrySize) IN
              IF c1.code # "NONE" THEN c1
              ELSE LET c2 == IF isHotArchiveEntry
                             THEN restoreFromHotArchive(c1, lk, le, restoredLiveUntilLedger)
                             ELSE restoreFromLiveBucketList(c1, lk, le, restoredLiveUntilLedger)
                   IN [c2 EXCEPT !.bufs = c2.bufs \cup {lk}]
    ELSE Fail(c, "ENTRY_ARCHIVED")

\* A faulty addRead: an expired temporary entry is handled as an archived
\* entry, like a persistent one.
addRead_archivesTemporary(c, op, lk, isReadOnly, i) ==
    LET restoredLiveUntilLedger == ledgerSeq + minPersistentTTL - 1
        ttlKey == getTTLKey(lk)
        hasTTL == isSorobanEntry(lk) /\ Has(c.ltx, ttlKey)
        expired == hasTTL /\ ~isLive(c.ltx[ttlKey], ledgerSeq)
        sorobanEntryLive == hasTTL /\ ~expired
    IN
    IF expired
    THEN handleArchivedEntry(c, op, lk, c.ltx[lk], isReadOnly,
                             restoredLiveUntilLedger, FALSE, i)
    ELSE IF /\ isSorobanEntry(lk) /\ ~hasTTL /\ isPersistentEntry(lk)
            /\ protocolVersionStartsFrom(ledgerVersion,
                                         FIRST_PROTOCOL_SUPPORTING_PERSISTENT_EVICTION)
            /\ Has(hot, lk)
    THEN handleArchivedEntry(c, op, lk, hot[lk], isReadOnly,
                             restoredLiveUntilLedger, TRUE, i)
    ELSE
    LET loaded == (~isSorobanEntry(lk) \/ sorobanEntryLive) /\ Has(c.ltx, lk)
        entrySize == IF loaded THEN EntrySize(lk, c.ltx[lk]) ELSE 0
        c1 == IF loaded THEN [c EXCEPT !.bufs = c.bufs \cup {lk}] ELSE c
    IN
    IF sorobanEntryLive /\ ~Has(c.ltx, lk)
    THEN Fail(c, "EXCEPTION")
    ELSE IF ~validateContractLedgerEntry(lk, entrySize)
    THEN Fail(c1, "RESOURCE_LIMIT_EXCEEDED")
    ELSE IF \/ ~isSorobanEntry(lk)
            \/ protocolVersionIsBefore(ledgerVersion, AUTO_RESTORE_PROTOCOL_VERSION)
    THEN meterDiskReadResource(c1, op, lk, entrySize)
    ELSE [c1 EXCEPT !.mReadEntry = c1.mReadEntry + 1]

\* A faulty addRead: a live contract entry is metered as a disk read at
\* every protocol.
addRead_metersInMemory(c, op, lk, isReadOnly, i) ==
    LET restoredLiveUntilLedger == ledgerSeq + minPersistentTTL - 1
        ttlKey == getTTLKey(lk)
        hasTTL == isSorobanEntry(lk) /\ Has(c.ltx, ttlKey)
        expired == hasTTL /\ ~isLive(c.ltx[ttlKey], ledgerSeq)
        sorobanEntryLive == hasTTL /\ ~expired
    IN
    IF expired /\ ~isTemporaryEntry(lk)
    THEN handleArchivedEntry(c, op, lk, c.ltx[lk], isReadOnly,
                             restoredLiveUntilLedger, FALSE, i)
    ELSE IF /\ isSorobanEntry(lk) /\ ~hasTTL /\ isPersistentEntry(lk)
            /\ protocolVersionStartsFrom(ledgerVersion,
                                         FIRST_PROTOCOL_SUPPORTING_PERSISTENT_EVICTION)
            /\ Has(hot, lk)
    THEN handleArchivedEntry(c, op, lk, hot[lk], isReadOnly,
                             restoredLiveUntilLedger, TRUE, i)
    ELSE
    LET loaded == (~isSorobanEntry(lk) \/ sorobanEntryLive) /\ Has(c.ltx, lk)
        entrySize == IF loaded THEN EntrySize(lk, c.ltx[lk]) ELSE 0
        c1 == IF loaded THEN [c EXCEPT !.bufs = c.bufs \cup {lk}] ELSE c
    IN
    IF sorobanEntryLive /\ ~Has(c.ltx, lk)
    THEN Fail(c, "EXCEPTION")
    ELSE IF ~validateContractLedgerEntry(lk, entrySize)
    THEN Fail(c1, "RESOURCE_LIMIT_EXCEEDED")
    ELSE meterDiskReadResource(c1, op, lk, entrySize)

\* One iteration of the loop of addReads.
addRead(c, op, lk, isReadOnly, i) ==
    LET restoredLiveUntilLedger == ledgerSeq + minPersistentTTL - 1
        ttlKey == getTTLKey(lk)
        hasTTL == isSorobanEntry(lk) /\ Has(c.ltx, ttlKey)
        expired == hasTTL /\ ~isLive(c.ltx[ttlKey], ledgerSeq)
        sorobanEntryLive == hasTTL /\ ~expired
    IN
    IF expired /\ ~isTemporaryEntry(lk)
    THEN handleArchivedEntry(c, op, lk, c.ltx[lk], isReadOnly,
                             restoredLiveUntilLedger, FALSE, i)
    ELSE IF /\ isSorobanEntry(lk) /\ ~hasTTL /\ isPersistentEntry(lk)
            /\ protocolVersionStartsFrom(ledgerVersion,
                                         FIRST_PROTOCOL_SUPPORTING_PERSISTENT_EVICTION)
            /\ Has(hot, lk)
    THEN handleArchivedEntry(c, op, lk, hot[lk], isReadOnly,
                             restoredLiveUntilLedger, TRUE, i)
    ELSE
    LET loaded == (~isSorobanEntry(lk) \/ sorobanEntryLive) /\ Has(c.ltx, lk)
        entrySize == IF loaded THEN EntrySize(lk, c.ltx[lk]) ELSE 0
        c1 == IF loaded THEN [c EXCEPT !.bufs = c.bufs \cup {lk}] ELSE c
    IN
    IF sorobanEntryLive /\ ~Has(c.ltx, lk)
    THEN Fail(c, "EXCEPTION")
    ELSE IF ~validateContractLedgerEntry(lk, entrySize)
    THEN Fail(c1, "RESOURCE_LIMIT_EXCEEDED")
    ELSE IF \/ ~isSorobanEntry(lk)
            \/ protocolVersionIsBefore(ledgerVersion, AUTO_RESTORE_PROTOCOL_VERSION)
    THEN meterDiskReadResource(c1, op, lk, entrySize)
    ELSE [c1 EXCEPT !.mReadEntry = c1.mReadEntry + 1]

RECURSIVE addReadsFrom(_, _, _, _, _)
addReadsFrom(c, op, keys, isReadOnly, i) ==
    IF i > Len(keys) \/ c.code # "NONE" THEN c
    ELSE addReadsFrom(addRead(c, op, keys[i], isReadOnly, i), op, keys, isReadOnly, i + 1)

addReads(c, op, keys, isReadOnly) == addReadsFrom(c, op, keys, isReadOnly, 1)

\* A faulty applyReads: the readWrite keys are read before the readOnly keys.
applyReads_readWriteFirst(c, op) ==
    LET c1 == addReads(c, op, op.readWrite, FALSE) IN
    IF c1.code # "NONE" THEN c1 ELSE addReads(c1, op, op.readOnly, TRUE)

\* The two addReads calls that open apply().
applyReads(c, op) ==
    LET c1 == addReads(c, op, op.readOnly, TRUE) IN
    IF c1.code # "NONE" THEN c1 ELSE addReads(c1, op, op.readWrite, FALSE)

\* RefundableFeeTracker::consumeRefundableSorobanResources for the one
\* operation of a transaction: the rent fee and the fee of the event bytes
\* (one stroop a byte) must fit the declared refundable fee.
consumeRefundableSorobanResources(refundableFee, eventBytes, rentFee) ==
    /\ rentFee <= refundableFee
    /\ rentFee + eventBytes <= refundableFee

\* A faulty hostFailure: the limits are compared before the internal error
\* is looked at.
hostFailure_limitsFirst(c, op, out) ==
    IF op.instructions < out.cpu_insns THEN Fail(c, "RESOURCE_LIMIT_EXCEEDED")
    ELSE IF txMemoryLimit < out.mem_bytes THEN Fail(c, "RESOURCE_LIMIT_EXCEEDED")
    ELSE IF out.is_internal_error THEN Fail(c, "EXCEPTION")
    ELSE Fail(c, "TRAPPED")

\* A faulty hostFailure: the instructions are not compared.
hostFailure_memoryOnly(c, op, out) ==
    IF out.is_internal_error THEN Fail(c, "EXCEPTION")
    ELSE IF txMemoryLimit < out.mem_bytes THEN Fail(c, "RESOURCE_LIMIT_EXCEEDED")
    ELSE Fail(c, "TRAPPED")

\* The branch of apply() taken when the host reports failure.
hostFailure(c, op, out) ==
    IF out.is_internal_error THEN Fail(c, "EXCEPTION")
    ELSE IF op.instructions < out.cpu_insns THEN Fail(c, "RESOURCE_LIMIT_EXCEEDED")
    ELSE IF txMemoryLimit < out.mem_bytes THEN Fail(c, "RESOURCE_LIMIT_EXCEEDED")
    ELSE Fail(c, "TRAPPED")

\* A faulty writeEntry: a TTL entry is metered like any other entry.
writeEntry_metersTTL(w, op, le) ==
    LET lk == le.key
        entrySize == EntrySize(lk, le.data)
        touched == w.createdAndModifiedKeys \cup {lk}
        written == w.h.mLedgerWriteByte + entrySize
        h1 == [w.h EXCEPT !.mLedgerWriteByte = written]
    IN
    IF ~validateContractLedgerEntry(lk, entrySize)
    THEN [w EXCEPT !.h = Fail(w.h, "RESOURCE_LIMIT_EXCEEDED")]
    ELSE IF op.writeBytes < written
    THEN [w EXCEPT !.h = Fail(h1, "RESOURCE_LIMIT_EXCEEDED"),
                   !.createdAndModifiedKeys = touched]
    ELSE [h |-> [h1 EXCEPT !.ltx = Put(h1.ltx, lk, le.data)],
          createdKeys |-> IF Has(h1.ltx, lk) THEN w.createdKeys
                          ELSE w.createdKeys \cup {lk},
          createdAndModifiedKeys |-> touched]

\* One iteration of the loop over out.modified_ledger_entries; w carries the
\* helper (h), createdKeys and createdAndModifiedKeys.
writeEntry(w, op, le) ==
    LET lk == le.key
        entrySize == EntrySize(lk, le.data)
        touched == w.createdAndModifiedKeys \cup {lk}
        written == IF lk.type # "TTL"
                   THEN w.h.mLedgerWriteByte + entrySize
                   ELSE w.h.mLedgerWriteByte
        h1 == [w.h EXCEPT !.mLedgerWriteByte = written]
    IN
    IF ~validateContractLedgerEntry(lk, entrySize)
    THEN [w EXCEPT !.h = Fail(w.h, "RESOURCE_LIMIT_EXCEEDED")]
    ELSE IF lk.type # "TTL" /\ op.writeBytes < written
    THEN [w EXCEPT !.h = Fail(h1, "RESOURCE_LIMIT_EXCEEDED"),
                   !.createdAndModifiedKeys = touched]
    ELSE [h |-> [h1 EXCEPT !.ltx = Put(h1.ltx, lk, le.data)],
          createdKeys |-> IF Has(h1.ltx, lk) THEN w.createdKeys
                          ELSE w.createdKeys \cup {lk},
          createdAndModifiedKeys |-> touched]

RECURSIVE writeEntriesFrom(_, _, _, _)
writeEntriesFrom(w, op, entries, i) ==
    IF i > Len(entries) \/ w.h.code # "NONE" THEN w
    ELSE writeEntriesFrom(writeEntry(w, op, entries[i]), op, entries, i + 1)

\* A faulty createdKeysOk: a created contract entry is not asked for its
\* TTL entry.
createdKeysOk_noTTL(createdKeys) ==
    \A key \in createdKeys : isSorobanEntry(key) \/ key.type = "TTL"

\* Every created ContractCode or ContractData entry comes with its TTL entry,
\* and nothing else is created.
createdKeysOk(createdKeys) ==
    \A key \in createdKeys :
        IF isSorobanEntry(key) THEN getTTLKey(key) \in createdKeys
        ELSE key.type = "TTL"

\* A faulty eraseUntouched: the entry is erased and its TTL entry is left.
eraseUntouched_keepsTTL(h, lk, createdAndModifiedKeys) ==
    IF lk \in createdAndModifiedKeys \/ ~Has(h.ltx, lk) THEN h
    ELSE IF ~isSorobanEntry(lk) THEN Fail(h, "EXCEPTION")
    ELSE IF ~Has(Del(h.ltx, lk), getTTLKey(lk)) THEN Fail(h, "EXCEPTION")
    ELSE [h EXCEPT !.ltx = Del(h.ltx, lk)]

\* One iteration of the loop that erases the readWrite entries not returned.
eraseUntouched(h, lk, createdAndModifiedKeys) ==
    IF lk \in createdAndModifiedKeys \/ ~Has(h.ltx, lk) THEN h
    ELSE IF ~isSorobanEntry(lk) THEN Fail(h, "EXCEPTION")
    ELSE IF ~Has(Del(h.ltx, lk), getTTLKey(lk)) THEN Fail(h, "EXCEPTION")
    ELSE [h EXCEPT !.ltx = Del(Del(h.ltx, lk), getTTLKey(lk))]

RECURSIVE eraseFrom(_, _, _, _)
eraseFrom(h, keys, createdAndModifiedKeys, i) ==
    IF i > Len(keys) \/ h.code # "NONE" THEN h
    ELSE eraseFrom(eraseUntouched(h, keys[i], createdAndModifiedKeys),
                   keys, createdAndModifiedKeys, i + 1)

\* The loop over out.contract_events (each event is its size in bytes).
RECURSIVE emitEventsFrom(_, _, _)
emitEventsFrom(h, events, i) ==
    IF i > Len(events) \/ h.code # "NONE" THEN h
    ELSE LET bytes == h.mEmitEventByte + events[i]
             h1 == [h EXCEPT !.mEmitEventByte = bytes]
         IN emitEventsFrom(IF txMaxContractEventsSizeBytes < bytes
                           THEN Fail(h1, "RESOURCE_LIMIT_EXCEEDED") ELSE h1,
                           events, i + 1)

\* A faulty finishSuccess: the return value is left out of the bytes the
\* refundable fee pays for.
finishSuccess_eventsOnly(h, op, out) ==
    LET bytes == h.mEmitEventByte + out.result_value
        h1 == [h EXCEPT !.mEmitEventByte = bytes]
    IN IF txMaxContractEventsSizeBytes < bytes
       THEN Fail(h1, "RESOURCE_LIMIT_EXCEEDED")
       ELSE IF ~consumeRefundableSorobanResources(op.refundableFee, h.mEmitEventByte,
                                                  out.rent_fee)
       THEN Fail(h1, "INSUFFICIENT_REFUNDABLE_FEE")
       ELSE Succeed(h1, "SUCCESS")

\* A faulty finishSuccess: the refundable fee falls short, the code says so,
\* and the applier returns true.
finishSuccess_returnsTrue(h, op, out) ==
    LET bytes == h.mEmitEventByte + out.result_value
        h1 == [h EXCEPT !.mEmitEventByte = bytes]
    IN IF txMaxContractEventsSizeBytes < bytes
       THEN Fail(h1, "RESOURCE_LIMIT_EXCEEDED")
       ELSE IF ~consumeRefundableSorobanResources(op.refundableFee, bytes, out.rent_fee)
       THEN Succeed(h1, "INSUFFICIENT_REFUNDABLE_FEE")
       ELSE Succeed(h1, "SUCCESS")

\* A faulty finishSuccess: the limit is not compared again once the return
\* value is added.
finishSuccess_noLimit(h, op, out) ==
    LET bytes == h.mEmitEventByte + out.result_value
        h1 == [h EXCEPT !.mEmitEventByte = bytes]
    IN IF ~consumeRefundableSorobanResources(op.refundableFee, bytes, out.rent_fee)
       THEN Fail(h1, "INSUFFICIENT_REFUNDABLE_FEE")
       ELSE Succeed(h1, "SUCCESS")

\* The return value is added to the event bytes, the limit is checked again,
\* and the refundable fee is consumed.
finishSuccess(h, op, out) ==
    LET bytes == h.mEmitEventByte + out.result_value
        h1 == [h EXCEPT !.mEmitEventByte = bytes]
    IN IF txMaxContractEventsSizeBytes < bytes
       THEN Fail(h1, "RESOURCE_LIMIT_EXCEEDED")
       ELSE IF ~consumeRefundableSorobanResources(op.refundableFee, bytes, out.rent_fee)
       THEN Fail(h1, "INSUFFICIENT_REFUNDABLE_FEE")
       ELSE Succeed(h1, "SUCCESS")

\* apply() from the return of the host on.
applyOutput(c, op, out) ==
    IF ~out.success THEN hostFailure(c, op, out)
    ELSE
    LET w == writeEntriesFrom([h |-> c, createdKeys |-> {}, createdAndModifiedKeys |-> {}],
                              op, out.modified_ledger_entries, 1)
    IN
    IF w.h.code # "NONE" THEN w.h
    ELSE IF ~createdKeysOk(w.createdKeys) THEN Fail(w.h, "EXCEPTION")
    ELSE
    LET h2 == eraseFrom(w.h, op.readWrite, w.createdAndModifiedKeys, 1) IN
    IF h2.code # "NONE" THEN h2
    ELSE
    LET h3 == emitEventsFrom(h2, out.contract_events, 1) IN
    IF h3.code # "NONE" THEN h3
    ELSE finishSuccess(h3, op, out)

----------------------------------------------------------------------------
(* The host (the contract engine) as seen by apply() *)

HostPayloads == {1, 2}

\* A faulty host: it also returns a modified entry for a read-only key.
hostEntryChoices_writesReadOnly(c, lk, isReadOnly) ==
    IF lk \in c.bufs
    THEN {<<>>} \cup {<<[key |-> lk, data |-> d]>> : d \in HostPayloads}
    ELSE {<<>>}

\* What the host may return for one footprint key: nothing (the entry does
\* not exist after the call), the entry, or the entry with its TTL entry.
\* The host passes untouched readWrite entries through, extends the TTL of
\* entries it read, and gives a new entry the minimal TTL of its durability.
hostEntryChoices(c, lk, isReadOnly) ==
    LET ttlKey == getTTLKey(lk)
        bump == ledgerSeq + maxEntryTTL - 1
        fresh == ledgerSeq - 1 +
                 (IF isTemporaryEntry(lk) THEN minTemporaryTTL ELSE minPersistentTTL)
        extended == IF lk \in c.bufs /\ isSorobanEntry(lk) /\ c.ltx[ttlKey] < bump
                    THEN {<<[key |-> ttlKey, data |-> bump]>>} ELSE {}
    IN
    IF ~isSorobanEntry(lk)
    THEN IF isReadOnly \/ lk \notin c.bufs THEN {<<>>}
         ELSE {<<[key |-> lk, data |-> d]>> : d \in HostPayloads}
    ELSE IF isReadOnly THEN {<<>>} \cup extended
    ELSE IF lk \in c.bufs
    THEN {<<>>} \cup {<<[key |-> lk, data |-> d]>> : d \in HostPayloads}
    ELSE {<<>>} \cup {<<[key |-> lk, data |-> d], [key |-> ttlKey, data |-> fresh]>> :
                       d \in HostPayloads}

RECURSIVE hostModifiedFrom(_, _, _, _)
hostModifiedFrom(c, keys, nReadOnly, i) ==
    IF i > Len(keys) THEN {<<>>}
    ELSE {a \o b : a \in hostEntryChoices(c, keys[i], i <= nReadOnly),
                   b \in hostModifiedFrom(c, keys, nReadOnly, i + 1)}

hostModified(c, op) ==
    hostModifiedFrom(c, op.readOnly \o op.readWrite, Len(op.readOnly), 1)

\* The outputs of invoke_host_function for a call; n bounds the numbers.
hostOutputs(c, op, n) ==
    {[success |-> FALSE, is_internal_error |-> e, cpu_insns |-> cpu, mem_bytes |-> mem,
      modified_ledger_entries |-> m, contract_events |-> <<>>,
      result_value |-> 0, rent_fee |-> 0] :
        e \in BOOLEAN, cpu \in n.cpu, mem \in n.mem, m \in hostModified(c, op)}
    \cup
    {[success |-> TRUE, is_internal_error |-> FALSE, cpu_insns |-> cpu, mem_bytes |-> 1,
      modified_ledger_entries |-> m, contract_events |-> ev,
      result_value |-> rv, rent_fee |-> rent] :
        cpu \in n.cpuOk, m \in hostModified(c, op), ev \in n.events,
        rv \in n.result, rent \in n.rent}

----------------------------------------------------------------------------
(* Operations *)

\* Sequences of distinct elements of S, of length at most n.
SeqsNoDup(S, n) ==
    UNION {{q \in [1..m -> S] : \A i, j \in 1..m : i # j => q[i] # q[j]} : m \in 0..n}

Range(q) == {q[i] : i \in 1..Len(q)}

\* The footprints of valid transactions: no key is declared twice.
ValidFootprints ==
    {f \in [readOnly : SeqsNoDup(DataKeys, MaxFootprint),
            readWrite : SeqsNoDup(DataKeys, MaxFootprint)] :
        /\ Len(f.readOnly) + Len(f.readWrite) <= MaxFootprint
        /\ Range(f.readOnly) \cap Range(f.readWrite) = {}}

\* The resource extensions: v0, or v1 listing readWrite indices to restore.
ResourceExts(rw) ==
    {[v |-> 0, archivedSorobanEntries |-> {}]}
    \cup {[v |-> 1, archivedSorobanEntries |-> a] : a \in (SUBSET (1..Len(rw))) \ {{}}}

MakeOp(f, e, b) ==
    [readOnly |-> f.readOnly, readWrite |-> f.readWrite, ext |-> e,
     instructions |-> b.instructions, diskReadBytes |-> b.diskReadBytes,
     writeBytes |-> b.writeBytes, refundableFee |-> b.refundableFee]

----------------------------------------------------------------------------
(* RestoreFootprintOpFrame *)

\* rust_bridge::contract_code_memory_size_for_rent: the in-memory size of a
\* contract, which is not the size of its XDR.
contract_code_memory_size_for_rent(data) == data + 1

\* rust_bridge::compute_rent_fee over the collected rent changes.
RECURSIVE compute_rent_fee(_)
compute_rent_fee(changes) ==
    IF changes = <<>> THEN 0
    ELSE Head(changes).new_size_bytes + compute_rent_fee(Tail(changes))

\* A faulty doCheckValidForSoroban: the read-only footprint is not looked at.
doCheckValidForSoroban_ignoresReadOnly(op) ==
    \A i \in 1..Len(op.readWrite) : isPersistentEntry(op.readWrite[i])

\* RestoreFootprintOpFrame::doCheckValidForSoroban
doCheckValidForSoroban(op) ==
    /\ op.readOnly = <<>>
    /\ \A i \in 1..Len(op.readWrite) : isPersistentEntry(op.readWrite[i])

\* A faulty restoredLiveUntilLedgerAt: the current ledger is not counted.
restoredLiveUntilLedgerAt_plusOne(seq) == seq + minPersistentTTL

\* The TTL a restored entry gets: the minimum TTL, the current ledger included.
restoredLiveUntilLedgerAt(seq) == seq + minPersistentTTL - 1

\* A faulty restoreLookup: an entry in its last live ledger counts as expired.
restoreLookup_strict(r, lk) ==
    LET ttlKey == getTTLKey(lk) IN
    IF ~Has(r.ltx, ttlKey)
    THEN IF /\ protocolVersionStartsFrom(ledgerVersion,
                   FIRST_PROTOCOL_SUPPORTING_PERSISTENT_EVICTION)
            /\ Has(hot, lk)
         THEN "archive" ELSE "skip"
    ELSE IF r.ltx[ttlKey] > ledgerSeq THEN "skip" ELSE "expired"

\* A faulty restoreLookup: a key with a TTL entry is restored whether or
\* not the entry is still live.
restoreLookup_restoresLive(r, lk) ==
    LET ttlKey == getTTLKey(lk) IN
    IF ~Has(r.ltx, ttlKey)
    THEN IF /\ protocolVersionStartsFrom(ledgerVersion,
                   FIRST_PROTOCOL_SUPPORTING_PERSISTENT_EVICTION)
            /\ Has(hot, lk)
         THEN "archive" ELSE "skip"
    ELSE "expired"

\* Where the loop of doApply finds a key: in the hot archive ("archive"), in
\* the live state with an expired TTL ("expired"), or nowhere to restore it
\* from, the key being live or in neither store ("skip").
restoreLookup(r, lk) ==
    LET ttlKey == getTTLKey(lk) IN
    IF ~Has(r.ltx, ttlKey)
    THEN IF /\ protocolVersionStartsFrom(ledgerVersion,
                   FIRST_PROTOCOL_SUPPORTING_PERSISTENT_EVICTION)
            /\ Has(hot, lk)
         THEN "archive" ELSE "skip"
    ELSE IF isLive(r.ltx[ttlKey], ledgerSeq) THEN "skip" ELSE "expired"

\* A faulty restoreKey: a key that is skipped because its entry is live is
\* counted as read.
restoreKey_metersSkipped(r, op, lk) ==
    LET restoredLiveUntilLedger == restoredLiveUntilLedgerAt(ledgerSeq)
        fromArchive == restoreLookup(r, lk) = "archive"
    IN
    IF restoreLookup(r, lk) = "skip"
    THEN IF Has(r.ltx, lk)
         THEN [r EXCEPT !.mLedgerReadByte = r.mLedgerReadByte + EntrySize(lk, r.ltx[lk])]
         ELSE r
    ELSE IF ~fromArchive /\ ~Has(r.ltx, lk) THEN Fail(r, "EXCEPTION")
    ELSE
    LET entry == IF fromArchive THEN hot[lk] ELSE r.ltx[lk]
        entrySize == EntrySize(lk, entry)
        read == r.mLedgerReadByte + entrySize
        written == r.mLedgerWriteByte + entrySize
        r1 == [r EXCEPT !.mLedgerReadByte = read]
        r2 == [r1 EXCEPT !.mLedgerWriteByte = written]
        entrySizeForRent ==
            IF protocolVersionStartsFrom(ledgerVersion, V_23) /\ isContractCodeEntry(lk)
            THEN contract_code_memory_size_for_rent(entry)
            ELSE entrySize
        change == [is_persistent |-> TRUE, old_size_bytes |-> 0,
                   old_live_until_ledger |-> 0,
                   new_size_bytes |-> entrySizeForRent,
                   new_live_until_ledger |-> restoredLiveUntilLedger]
        r3 == [r2 EXCEPT !.rentChanges = Append(r2.rentChanges, change)]
    IN
    IF op.diskReadBytes < read THEN Fail(r1, "RESOURCE_LIMIT_EXCEEDED")
    ELSE IF ~validateContractLedgerEntry(lk, entrySize)
    THEN Fail(r2, "RESOURCE_LIMIT_EXCEEDED")
    ELSE IF op.writeBytes < written THEN Fail(r2, "RESOURCE_LIMIT_EXCEEDED")
    ELSE IF fromArchive
    THEN restoreFromHotArchive(r3, lk, entry, restoredLiveUntilLedger)
    ELSE restoreFromLiveBucketList(r3, lk, entry, restoredLiveUntilLedger)

\* One iteration of the loop of doApply; r is the helper with rentChanges.
restoreKey(r, op, lk) ==
    LET restoredLiveUntilLedger == restoredLiveUntilLedgerAt(ledgerSeq)
        fromArchive == restoreLookup(r, lk) = "archive"
    IN
    IF restoreLookup(r, lk) = "skip" THEN r
    ELSE IF ~fromArchive /\ ~Has(r.ltx, lk) THEN Fail(r, "EXCEPTION")
    ELSE
    LET entry == IF fromArchive THEN hot[lk] ELSE r.ltx[lk]
        entrySize == EntrySize(lk, entry)
        read == r.mLedgerReadByte + entrySize
        written == r.mLedgerWriteByte + entrySize
        r1 == [r EXCEPT !.mLedgerReadByte = read]
        r2 == [r1 EXCEPT !.mLedgerWriteByte = written]
        entrySizeForRent ==
            IF protocolVersionStartsFrom(ledgerVersion, V_23) /\ isContractCodeEntry(lk)
            THEN contract_code_memory_size_for_rent(entry)
            ELSE entrySize
        change == [is_persistent |-> TRUE, old_size_bytes |-> 0,
                   old_live_until_ledger |-> 0,
                   new_size_bytes |-> entrySizeForRent,
                   new_live_until_ledger |-> restoredLiveUntilLedger]
        r3 == [r2 EXCEPT !.rentChanges = Append(r2.rentChanges, change)]
    IN
    IF op.diskReadBytes < read THEN Fail(r1, "RESOURCE_LIMIT_EXCEEDED")
    ELSE IF ~validateContractLedgerEntry(lk, entrySize)
    THEN Fail(r2, "RESOURCE_LIMIT_EXCEEDED")
    ELSE IF op.writeBytes < written THEN Fail(r2, "RESOURCE_LIMIT_EXCEEDED")
    ELSE IF fromArchive
    THEN restoreFromHotArchive(r3, lk, entry, restoredLiveUntilLedger)
    ELSE restoreFromLiveBucketList(r3, lk, entry, restoredLiveUntilLedger)

RECURSIVE restoreFrom(_, _, _)
restoreFrom(r, op, i) ==
    IF i > Len(op.readWrite) \/ r.code # "NONE" THEN r
    ELSE restoreFrom(restoreKey(r, op, op.readWrite[i]), op, i + 1)

\* RestoreFootprintOpFrame::doApply
restoreApply(view, op) ==
    LET r == restoreFrom(NewHelper(view), op, 1)
        rentFee == compute_rent_fee(r.rentChanges)
    IN IF r.code # "NONE" THEN r
       ELSE IF ~consumeRefundableSorobanResources(op.refundableFee, 0, rentFee)
       THEN Fail(r, "INSUFFICIENT_REFUNDABLE_FEE")
       ELSE Succeed(r, "SUCCESS")

----------------------------------------------------------------------------
(* The ledger: operations apply in their own nested LedgerTxn, which is    *)
(* committed to the ledger's LedgerTxn on success and rolled back          *)
(* otherwise; the close evicts expired entries and commits the ledger.     *)

\* The outcome of an operation with final helper h folded into the ledger.
Finish(kind, h, op, out, pre, meter) ==
    /\ IF h.ret
       THEN /\ ltx' = h.ltx
            /\ restoredHot' = restoredHot \cup h.rHot
            /\ restoredLive' = restoredLive \cup h.rLive
       ELSE UNCHANGED <<ltx, restoredHot, restoredLive>>
    /\ last' = [kind |-> kind, code |-> h.code, closed |-> FALSE, seq |-> ledgerSeq,
                rHot |-> h.rHot, rLive |-> h.rLive,
                op |-> op, out |-> out, pre |-> pre, meter |-> meter]
    /\ nOps' = nOps + 1
    /\ UNCHANGED <<ledgerVersion, ledgerSeq, live, hot, evictedPayload, commit,
                   startup, manager, metering, inflation>>

\* What last keeps of an operation and of the host's output: all of it
\* or nothing.
NotKept == [none |-> TRUE]
Kept(keep, x) == IF keep THEN x ELSE NotKept

\* The state an operation starts from, and the metrics it ends with.
PreState == [live |-> live, hot |-> hot, ltx |-> ltx,
             restoredHot |-> restoredHot, restoredLive |-> restoredLive]

Meter(h) == [mLedgerReadByte |-> h.mLedgerReadByte,
             mLedgerWriteByte |-> h.mLedgerWriteByte,
             mEmitEventByte |-> h.mEmitEventByte,
             rentChanges |-> h.rentChanges]

\* InvokeHostFunctionOpFrame::doApply for an operation with one of the
\* budgets b, the host returning numbers of n.
ApplyInvoke(b, n, keep) ==
    /\ nOps < MaxOps
    /\ \E f \in ValidFootprints, bud \in b :
         \E e \in ResourceExts(f.readWrite) :
           LET op == MakeOp(f, e, bud)
               c == applyReads(NewHelper(ltx), op)
           IN IF c.code # "NONE"
              THEN Finish("invoke", c, Kept(keep, op), NotKept, Kept(keep, PreState), Kept(keep, Meter(c)))
              ELSE \E out \in hostOutputs(c, op, n) :
                     LET h == applyOutput(c, op, out) IN
                     Finish("invoke", h, Kept(keep, op), Kept(keep, out), Kept(keep, PreState), Kept(keep, Meter(h)))

\* RestoreFootprintOpFrame: doCheckValidForSoroban, then doApply.
ApplyRestore(b, keep) ==
    /\ nOps < MaxOps
    /\ \E f \in ValidFootprints, bud \in b :
         LET op == MakeOp(f, [v |-> 0, archivedSorobanEntries |-> {}], bud) IN
         IF ~doCheckValidForSoroban(op)
         THEN Finish("restore", Fail(NewHelper(ltx), "MALFORMED"), Kept(keep, op), NotKept,
                     Kept(keep, PreState), Kept(keep, Meter(NewHelper(ltx))))
         ELSE LET h == restoreApply(ltx, op) IN
              Finish("restore", h, Kept(keep, op), NotKept, Kept(keep, PreState), Kept(keep, Meter(h)))

\* The entries the eviction scan finds expired at the closing ledger.
Expired(view, seq) ==
    {k \in SorobanKeys : Has(view, getTTLKey(k)) /\ ~isLive(view[getTTLKey(k)], seq)}

Archivable(view, seq) ==
    {k \in Expired(view, seq) :
        /\ isPersistentEntry(k)
        /\ protocolVersionStartsFrom(ledgerVersion,
                                     FIRST_PROTOCOL_SUPPORTING_PERSISTENT_EVICTION)}

Deletable(view, seq) == {k \in Expired(view, seq) : isTemporaryEntry(k)}

Evicted(view, seq) ==
    LET gone == Archivable(view, seq) \cup Deletable(view, seq) IN
    [k \in (DOMAIN view) \ (gone \cup {getTTLKey(g) : g \in gone}) |-> view[k]]

ArchiveAfter(archive, view, seq, restored) ==
    LET in == Archivable(view, seq) IN
    [k \in ((DOMAIN archive) \ restored) \cup in |->
        IF k \in in THEN view[k] ELSE archive[k]]

CloseLedger ==
    /\ ledgerSeq < MaxLedgerSeq
    /\ live' = Evicted(ltx, ledgerSeq)
    /\ hot' = ArchiveAfter(hot, ltx, ledgerSeq, restoredHot)
    /\ ltx' = live'
    /\ restoredHot' = {}
    /\ restoredLive' = {}
    /\ ledgerSeq' = ledgerSeq + 1
    /\ last' = [last EXCEPT !.closed = TRUE]
    /\ evictedPayload' = [k \in (DOMAIN evictedPayload) \cup Archivable(ltx, ledgerSeq) |->
                            IF k \in Archivable(ltx, ledgerSeq) THEN ltx[k]
                            ELSE evictedPayload[k]]
    /\ UNCHANGED <<ledgerVersion, nOps, commit, startup, manager, metering,
                   inflation>>

AmpleBudgets ==
    {[instructions |-> 2, diskReadBytes |-> 8, writeBytes |-> 8, refundableFee |-> 8]}

PlainNumbers ==
    [cpu |-> {1}, cpuOk |-> {1}, mem |-> {1}, events |-> {<<>>}, result |-> {0}, rent |-> {0}]

\* Budgets that are ample but for one limit.
TightBudgets ==
    AmpleBudgets
    \cup {[instructions |-> 2, diskReadBytes |-> d, writeBytes |-> 8, refundableFee |-> 8] :
            d \in {1, 2}}
    \cup {[instructions |-> 2, diskReadBytes |-> 8, writeBytes |-> w, refundableFee |-> 8] :
            w \in {1, 2}}
    \cup {[instructions |-> 2, diskReadBytes |-> 8, writeBytes |-> 8, refundableFee |-> r] :
            r \in {2}}
    \cup {[instructions |-> 3, diskReadBytes |-> 8, writeBytes |-> 8, refundableFee |-> 8]}

HostNumbers ==
    [cpu |-> {1, 3}, cpuOk |-> {1, 3}, mem |-> {1, 2}, events |-> {<<1>>, <<2>>, <<2, 1>>},
     result |-> {0, 1}, rent |-> {0, 1}]

\* No call of the invariant is recorded.
NoCommit == [called |-> FALSE, returned |-> FALSE]

\* The startup scan is not run.
NoStartup == [called |-> FALSE, returned |-> FALSE]

\* No invariant manager is observed.
NoManager == [made |-> FALSE]

\* No operation is metered.
NoMetering == [op |-> "none"]

\* No inflation is observed.
NoInflation == [made |-> FALSE]

NoLast == [kind |-> "none", code |-> "NONE", closed |-> FALSE, seq |-> 0,
           rHot |-> {}, rLive |-> {},
           op |-> NotKept, out |-> NotKept, pre |-> NotKept, meter |-> NotKept]

Init ==
    /\ ledgerVersion \in ProtocolVersions
    /\ ledgerSeq = 1
    /\ live = [k \in {A1} |-> 1]
    /\ hot = EmptyMap
    /\ ltx = live
    /\ restoredHot = {}
    /\ restoredLive = {}
    /\ nOps = 0
    /\ last = NoLast
    /\ evictedPayload = EmptyMap
    /\ commit = NoCommit
    /\ startup = NoStartup
    /\ manager = NoManager
    /\ metering = NoMetering
    /\ inflation = NoInflation

Next ==
    \/ ApplyInvoke(AmpleBudgets, PlainNumbers, FALSE)
    \/ ApplyRestore(AmpleBudgets, FALSE)
    \/ CloseLedger

Spec == Init /\ [][Next]_vars

----------------------------------------------------------------------------
(* One operation, with every budget and every host output, applied to a    *)
(* ledger that holds live, expired and archived entries.                   *)

Ledger(version, liveEntries, ttls, archived) ==
    [ledgerVersion |-> version,
     live |-> [k \in (DOMAIN liveEntries) \cup {getTTLKey(d) : d \in DOMAIN ttls} |->
                 IF k \in DOMAIN liveEntries THEN liveEntries[k]
                 ELSE ttls[DataKeyOf(k)]],
     hot |-> archived]

\* Ledgers as of the close of ledger 3 (ledger 4 is applied next).
OpLedgers ==
    { Ledger(23, (P2 :> 1) @@ (T1 :> 1) @@ (A1 :> 1), (P2 :> 5) @@ (T1 :> 3), (P1 :> 2)),
      Ledger(23, (P1 :> 2) @@ (P2 :> 1) @@ (A1 :> 1), (P1 :> 3) @@ (P2 :> 3), EmptyMap),
      Ledger(23, (T1 :> 2) @@ (A1 :> 2), (T1 :> 4), (P1 :> 1) @@ (P2 :> 1)),
      Ledger(23, (P1 :> 1) @@ (P2 :> 1) @@ (A1 :> 1), (P1 :> 4) @@ (P2 :> 3), EmptyMap),
      Ledger(22, (P1 :> 2) @@ (P2 :> 1) @@ (T1 :> 1) @@ (A1 :> 1),
                 (P1 :> 2) @@ (P2 :> 4) @@ (T1 :> 4), EmptyMap),
      Ledger(22, (P2 :> 2) @@ (T1 :> 2) @@ (A1 :> 1), (P2 :> 3) @@ (T1 :> 3), EmptyMap) }

InitOp ==
    /\ \E l \in OpLedgers :
         /\ ledgerVersion = l.ledgerVersion
         /\ live = l.live
         /\ hot = l.hot
    /\ ledgerSeq = 4
    /\ ltx = live
    /\ restoredHot = {}
    /\ restoredLive = {}
    /\ nOps = MaxOps - 1
    /\ last = NoLast
    /\ evictedPayload = hot
    /\ commit = NoCommit
    /\ startup = NoStartup
    /\ manager = NoManager
    /\ metering = NoMetering
    /\ inflation = NoInflation

\* The ledger closes once its operation is applied.
NextOp ==
    \/ ApplyInvoke(TightBudgets, HostNumbers, TRUE)
    \/ ApplyRestore(TightBudgets, TRUE)
    \/ (nOps = MaxOps /\ CloseLedger)

SpecOp == InitOp /\ [][NextOp]_vars

----------------------------------------------------------------------------
(* One invoke whose host output is taken as it comes: apply() tests what   *)
(* the host returns (created entries and their TTL entries, untouched      *)
(* readWrite entries), so the output is any sequence of entries for keys   *)
(* of the footprint.                                                       *)

\* The entries a host output may hold for the operation: an entry for a
\* readWrite key, or a TTL entry for a contract key of the footprint.
ReturnedEntries(op) ==
    {[key |-> k, data |-> d] : k \in Range(op.readWrite), d \in HostPayloads}
    \cup {[key |-> getTTLKey(k), data |-> ledgerSeq + 1] :
            k \in {x \in Range(op.readOnly \o op.readWrite) : isSorobanEntry(x)}}

\* Sequences of at most MaxReturned entries, no key twice.
anyModified(op) ==
    {q \in SeqsNoDup(ReturnedEntries(op), MaxReturned) :
        \A i, j \in 1..Len(q) : i # j => q[i].key # q[j].key}

\* The successful outputs of a host that is not trusted.
anyOutputs(op, n) ==
    {[success |-> TRUE, is_internal_error |-> FALSE, cpu_insns |-> cpu, mem_bytes |-> 1,
      modified_ledger_entries |-> m, contract_events |-> ev,
      result_value |-> rv, rent_fee |-> rent] :
        cpu \in n.cpuOk, m \in anyModified(op), ev \in n.events,
        rv \in n.result, rent \in n.rent}

\* InvokeHostFunctionOpFrame::doApply with the output of such a host.
ApplyInvokeAnyHost(b, n) ==
    /\ nOps < MaxOps
    /\ \E f \in ValidFootprints, bud \in b :
         \E e \in ResourceExts(f.readWrite) :
           LET op == MakeOp(f, e, bud)
               c == applyReads(NewHelper(ltx), op)
           IN IF c.code # "NONE"
              THEN Finish("invoke", c, op, NotKept, PreState, Meter(c))
              ELSE \E out \in anyOutputs(op, n) :
                     LET h == applyOutput(c, op, out) IN
                     Finish("invoke", h, op, out, PreState, Meter(h))

\* The ledgers of the operation, and one that holds no account entry, so
\* that an account entry can be created.
HostLedgers ==
    OpLedgers \cup {Ledger(23, (P2 :> 1), (P2 :> 5), (P1 :> 2))}

InitHost ==
    /\ \E l \in HostLedgers :
         /\ ledgerVersion = l.ledgerVersion
         /\ live = l.live
         /\ hot = l.hot
    /\ ledgerSeq = 4
    /\ ltx = live
    /\ restoredHot = {}
    /\ restoredLive = {}
    /\ nOps = MaxOps - 1
    /\ last = NoLast
    /\ evictedPayload = hot
    /\ commit = NoCommit
    /\ startup = NoStartup
    /\ manager = NoManager
    /\ metering = NoMetering
    /\ inflation = NoInflation

NextHost == ApplyInvokeAnyHost(AmpleBudgets, PlainNumbers)

SpecHost == InitHost /\ [][NextHost]_vars

----------------------------------------------------------------------------
(* ArchivedStateConsistency: the invariant checked on every ledger commit  *)

\* A ledger entry as the invariant compares it; the data of a TTL entry is
\* its liveUntilLedgerSeq.
LedgerEntry(lk, data, ext, lastModifiedLedgerSeq) ==
    [key |-> lk, data |-> data, ext |-> ext, lastModifiedLedgerSeq |-> lastModifiedLedgerSeq]

LedgerEntryKey(e) == e.key

\* The entries of the hot archive: an archived entry, or the marker of a
\* key that was restored.
HotArchiveArchived(e) == [type |-> "HOT_ARCHIVE_ARCHIVED", archivedEntry |-> e]
HotArchiveLive(lk) == [type |-> "HOT_ARCHIVE_LIVE", key |-> lk]

\* The strings the invariant returns: the empty string, or a message with
\* the keys and entries it prints.
NoFailure == <<>>
Failure(msg, cites) == <<[msg |-> msg, cites |-> cites]>>
NewLine == <<[msg |-> "\n", cites |-> <<>>]>>

\* releaseAssertOrThrow failed.
Thrown == <<[msg |-> "EXCEPTION", cites |-> <<>>]>>

\* The keys checkOnLedgerCommit preloads.
allKeys(evictedFromLive, deletedKeysFromLive, restoredFromArchive, restoredFromLiveState) ==
    LET withTTL(keys) == keys \cup {getTTLKey(k) : k \in {p \in keys : isPersistentEntry(p)}} IN
    withTTL({LedgerEntryKey(evictedFromLive[i]) : i \in 1..Len(evictedFromLive)})
    \cup withTTL(deletedKeysFromLive)
    \cup withTTL(DOMAIN restoredFromArchive)
    \cup withTTL(DOMAIN restoredFromLiveState)

\* lclLiveState->loadKeys into preloadedLiveEntries.
preloadLive(entries, keys) == [k \in (DOMAIN entries) \cap keys |-> entries[k]]

\* lclHotArchiveState->loadKeys into preloadedArchivedEntries: the markers
\* of restored keys are left out.
preloadArchived(archive, keys) ==
    [k \in {a \in (DOMAIN archive) \cap keys : archive[a].type = "HOT_ARCHIVE_ARCHIVED"} |->
        archive[k].archivedEntry]

\* A faulty checkArchivedEntry: an entry already in the archive is let through.
checkArchivedEntry_rearchives(preloadedLiveEntries, preloadedArchivedEntries, archivedEntry, ledgerSeqNext, ledgerVers) ==
    LET lk == LedgerEntryKey(archivedEntry)
        ttlKey == getTTLKey(lk)
    IN
    IF ~isPersistentEntry(lk) THEN Thrown
    ELSE IF ~Has(preloadedLiveEntries, lk)
    THEN Failure("Evicted entry does not exist in live state", <<lk>>)
    ELSE IF ~Has(preloadedLiveEntries, ttlKey)
    THEN Failure("TTL for persistent entry does not exist", <<lk, ttlKey>>)
    ELSE IF isLive(preloadedLiveEntries[ttlKey].data, ledgerSeqNext)
    THEN Failure("Evicted TTL is still live", <<lk, preloadedLiveEntries[ttlKey]>>)
    ELSE IF /\ protocolVersionStartsFrom(ledgerVers, V_24)
            /\ archivedEntry # preloadedLiveEntries[lk]
    THEN Failure("Outdated entry evicted", <<lk, archivedEntry, preloadedLiveEntries[lk]>>)
    ELSE NoFailure

\* A faulty checkArchivedEntry: an entry is evicted in the last ledger its
\* TTL entry keeps it live.
checkArchivedEntry_evictsEarly(preloadedLiveEntries, preloadedArchivedEntries, archivedEntry, ledgerSeqNext, ledgerVers) ==
    LET lk == LedgerEntryKey(archivedEntry)
        ttlKey == getTTLKey(lk)
    IN
    IF ~isPersistentEntry(lk) THEN Thrown
    ELSE IF Has(preloadedArchivedEntries, lk)
    THEN Failure("Archived entry already present in archive", <<preloadedArchivedEntries[lk]>>)
    ELSE IF ~Has(preloadedLiveEntries, lk)
    THEN Failure("Evicted entry does not exist in live state", <<lk>>)
    ELSE IF ~Has(preloadedLiveEntries, ttlKey)
    THEN Failure("TTL for persistent entry does not exist", <<lk, ttlKey>>)
    ELSE IF isLive(preloadedLiveEntries[ttlKey].data, ledgerSeqNext + 1)
    THEN Failure("Evicted TTL is still live", <<lk, preloadedLiveEntries[ttlKey]>>)
    ELSE IF /\ protocolVersionStartsFrom(ledgerVers, V_24)
            /\ archivedEntry # preloadedLiveEntries[lk]
    THEN Failure("Outdated entry evicted", <<lk, archivedEntry, preloadedLiveEntries[lk]>>)
    ELSE NoFailure

\* A faulty checkArchivedEntry: the evicted entry is compared with the live
\* entry from protocol 23 on.
checkArchivedEntry_comparesAt23(preloadedLiveEntries, preloadedArchivedEntries, archivedEntry, ledgerSeqNext, ledgerVers) ==
    LET lk == LedgerEntryKey(archivedEntry)
        ttlKey == getTTLKey(lk)
    IN
    IF ~isPersistentEntry(lk) THEN Thrown
    ELSE IF Has(preloadedArchivedEntries, lk)
    THEN Failure("Archived entry already present in archive", <<preloadedArchivedEntries[lk]>>)
    ELSE IF ~Has(preloadedLiveEntries, lk)
    THEN Failure("Evicted entry does not exist in live state", <<lk>>)
    ELSE IF ~Has(preloadedLiveEntries, ttlKey)
    THEN Failure("TTL for persistent entry does not exist", <<lk, ttlKey>>)
    ELSE IF isLive(preloadedLiveEntries[ttlKey].data, ledgerSeqNext)
    THEN Failure("Evicted TTL is still live", <<lk, preloadedLiveEntries[ttlKey]>>)
    ELSE IF /\ protocolVersionStartsFrom(ledgerVers, V_23)
            /\ archivedEntry # preloadedLiveEntries[lk]
    THEN Failure("Outdated entry evicted", <<lk, archivedEntry, preloadedLiveEntries[lk]>>)
    ELSE NoFailure

\* checkEvictionInvariants, the body of the loop over archivedEntries.
checkArchivedEntry(preloadedLiveEntries, preloadedArchivedEntries, archivedEntry, ledgerSeqNext, ledgerVers) ==
    LET lk == LedgerEntryKey(archivedEntry)
        ttlKey == getTTLKey(lk)
    IN
    IF ~isPersistentEntry(lk) THEN Thrown
    ELSE IF Has(preloadedArchivedEntries, lk)
    THEN Failure("Archived entry already present in archive", <<preloadedArchivedEntries[lk]>>)
    ELSE IF ~Has(preloadedLiveEntries, lk)
    THEN Failure("Evicted entry does not exist in live state", <<lk>>)
    ELSE IF ~Has(preloadedLiveEntries, ttlKey)
    THEN Failure("TTL for persistent entry does not exist", <<lk, ttlKey>>)
    ELSE IF isLive(preloadedLiveEntries[ttlKey].data, ledgerSeqNext)
    THEN Failure("Evicted TTL is still live", <<lk, preloadedLiveEntries[ttlKey]>>)
    ELSE IF /\ protocolVersionStartsFrom(ledgerVers, V_24)
            /\ archivedEntry # preloadedLiveEntries[lk]
    THEN Failure("Outdated entry evicted", <<lk, archivedEntry, preloadedLiveEntries[lk]>>)
    ELSE NoFailure

RECURSIVE checkArchivedEntriesFrom(_, _, _, _, _, _)
checkArchivedEntriesFrom(preloadedLiveEntries, preloadedArchivedEntries, archivedEntries, i, ledgerSeqNext, ledgerVers) ==
    IF i > Len(archivedEntries) THEN NoFailure
    ELSE LET res == checkArchivedEntry(preloadedLiveEntries, preloadedArchivedEntries,
                                       archivedEntries[i], ledgerSeqNext, ledgerVers)
         IN IF res # NoFailure THEN res
            ELSE checkArchivedEntriesFrom(preloadedLiveEntries, preloadedArchivedEntries,
                                          archivedEntries, i + 1, ledgerSeqNext, ledgerVers)

\* checkEvictionInvariants, the body of the loop over deletedKeys.
checkDeletedKey(preloadedLiveEntries, lk, ledgerSeqNext) ==
    LET ttlLk == getTTLKey(lk) IN
    IF ~isTemporaryEntry(lk) THEN NoFailure
    ELSE IF ~Has(preloadedLiveEntries, lk)
    THEN Failure("Evicted temp key does not exist in live state", <<lk>>)
    ELSE IF ~Has(preloadedLiveEntries, ttlLk)
    THEN Failure("TTL for temp entry does not exist in live state", <<lk, ttlLk>>)
    ELSE IF isLive(preloadedLiveEntries[ttlLk].data, ledgerSeqNext)
    THEN Failure("Evicted TTL for temp entry is still live", <<lk, preloadedLiveEntries[ttlLk]>>)
    ELSE NoFailure

RECURSIVE checkDeletedKeysFrom(_, _, _, _)
checkDeletedKeysFrom(preloadedLiveEntries, deletedKeys, i, ledgerSeqNext) ==
    IF i > Len(deletedKeys) THEN NoFailure
    ELSE LET res == checkDeletedKey(preloadedLiveEntries, deletedKeys[i], ledgerSeqNext)
         IN IF res # NoFailure THEN res
            ELSE checkDeletedKeysFrom(preloadedLiveEntries, deletedKeys, i + 1, ledgerSeqNext)

\* A faulty checkEvictedCounts: the archived entries are not counted.
checkEvictedCounts_tempsOnly(deletedKeys, archivedEntries) ==
    LET temps == Cardinality({i \in 1..Len(deletedKeys) : isTemporaryEntry(deletedKeys[i])})
        ttls == Len(deletedKeys) - temps
    IN IF temps # ttls
       THEN Failure("Number of TTLs evicted does not match number of data/code entries evicted",
                    <<ttls, temps, Len(archivedEntries)>>)
       ELSE NoFailure

\* checkEvictionInvariants, the comparison of the counters: the loop counts
\* the temporary keys as temps and every other key as a TTL.
checkEvictedCounts(deletedKeys, archivedEntries) ==
    LET temps == Cardinality({i \in 1..Len(deletedKeys) : isTemporaryEntry(deletedKeys[i])})
        ttls == Len(deletedKeys) - temps
    IN IF temps + Len(archivedEntries) # ttls
       THEN Failure("Number of TTLs evicted does not match number of data/code entries evicted",
                    <<ttls, temps, Len(archivedEntries)>>)
       ELSE NoFailure

\* deletedKeys is the unordered set in the order its iteration gives.
checkEvictionInvariants(preloadedLiveEntries, preloadedArchivedEntries, deletedKeys, archivedEntries, ledgerSeqNext, ledgerVers) ==
    IF Len(deletedKeys) = 0 /\ Len(archivedEntries) = 0 THEN NoFailure
    ELSE
    LET evicted == checkArchivedEntriesFrom(preloadedLiveEntries, preloadedArchivedEntries,
                                            archivedEntries, 1, ledgerSeqNext, ledgerVers)
    IN
    IF evicted # NoFailure THEN evicted
    ELSE
    LET deleted == checkDeletedKeysFrom(preloadedLiveEntries, deletedKeys, 1, ledgerSeqNext) IN
    IF deleted # NoFailure THEN deleted
    ELSE checkEvictedCounts(deletedKeys, archivedEntries)

\* A faulty checkRestoredKey: the TTL key of a restored key may be missing.
checkRestoredKey_withoutTTL(restored, key, from) ==
    IF key.type = "TTL" THEN NoFailure
    ELSE IF ~isPersistentEntry(key)
    THEN Failure("Restored entry is not a persistent entry", <<from, key>>)
    ELSE NoFailure

\* checkRestoreInvariants, the body of the first two loops: from is
\* "live state" in the first and "archive" in the second.
checkRestoredKey(restored, key, from) ==
    IF key.type = "TTL" THEN NoFailure
    ELSE IF ~isPersistentEntry(key)
    THEN Failure("Restored entry is not a persistent entry", <<from, key>>)
    ELSE IF ~Has(restored, getTTLKey(key))
    THEN Failure("TTL for restored entry is missing", <<from, getTTLKey(key)>>)
    ELSE NoFailure

RECURSIVE checkRestoredKeysFrom(_, _, _, _)
checkRestoredKeysFrom(restored, order, i, from) ==
    IF i > Len(order) THEN NoFailure
    ELSE LET res == checkRestoredKey(restored, order[i], from)
         IN IF res # NoFailure THEN res
            ELSE checkRestoredKeysFrom(restored, order, i + 1, from)

\* A faulty checkRestoredFromArchive: the TTL keys are skipped before the
\* live state is looked at.
checkRestoredFromArchive_skipsTTL(preloadedLiveEntries, preloadedArchivedEntries, key, entry, ledgerVer) ==
    IF key.type = "TTL" THEN NoFailure
    ELSE IF Has(preloadedLiveEntries, key)
    THEN Failure("Restored entry from archive is still in live state", <<key>>)
    ELSE IF ~Has(preloadedArchivedEntries, key)
    THEN Failure("Restored entry from archive does not exist in hot archive", <<key>>)
    ELSE IF \/ ~(preloadedArchivedEntries[key].data = entry.data)
            \/ /\ ~(preloadedArchivedEntries[key].ext = entry.ext)
               /\ protocolVersionStartsFrom(ledgerVer, V_24)
    THEN Failure("Restored entry from archive has incorrect value",
                 <<entry, preloadedArchivedEntries[key]>>)
    ELSE NoFailure

\* checkRestoreInvariants, the body of the third loop.  In the source the
\* condition is  !(data == data) || !(ext == ext) && protocolVersionStartsFrom,
\* and && binds tighter than ||.
checkRestoredFromArchive(preloadedLiveEntries, preloadedArchivedEntries, key, entry, ledgerVer) ==
    IF Has(preloadedLiveEntries, key)
    THEN Failure("Restored entry from archive is still in live state", <<key>>)
    ELSE IF key.type = "TTL" THEN NoFailure
    ELSE IF ~Has(preloadedArchivedEntries, key)
    THEN Failure("Restored entry from archive does not exist in hot archive", <<key>>)
    ELSE IF \/ ~(preloadedArchivedEntries[key].data = entry.data)
            \/ /\ ~(preloadedArchivedEntries[key].ext = entry.ext)
               /\ protocolVersionStartsFrom(ledgerVer, V_24)
    THEN Failure("Restored entry from archive has incorrect value",
                 <<entry, preloadedArchivedEntries[key]>>)
    ELSE NoFailure

RECURSIVE checkRestoredFromArchiveFrom(_, _, _, _, _, _)
checkRestoredFromArchiveFrom(preloadedLiveEntries, preloadedArchivedEntries, restoredFromArchive, order, i, ledgerVer) ==
    IF i > Len(order) THEN NoFailure
    ELSE LET res == checkRestoredFromArchive(preloadedLiveEntries, preloadedArchivedEntries,
                                             order[i], restoredFromArchive[order[i]], ledgerVer)
         IN IF res # NoFailure THEN res
            ELSE checkRestoredFromArchiveFrom(preloadedLiveEntries, preloadedArchivedEntries,
                                              restoredFromArchive, order, i + 1, ledgerVer)

\* A faulty checkRestoredFromLive: lastModifiedLedgerSeq is not compared.
checkRestoredFromLive_ignoresLastModified(preloadedLiveEntries, preloadedArchivedEntries, key, entry, ledgerSeqNext) ==
    IF Has(preloadedArchivedEntries, key)
    THEN Failure("Restored entry from live BucketList exists in hot archive",
                 <<entry, preloadedArchivedEntries[key]>>)
    ELSE IF ~Has(preloadedLiveEntries, key)
    THEN Failure("Restored entry from live BucketList does not exist in live state", <<key>>)
    ELSE IF \/ preloadedLiveEntries[key].data # entry.data
            \/ preloadedLiveEntries[key].ext # entry.ext
    THEN Failure("Restored entry from live BucketList has incorrect value",
                 <<preloadedLiveEntries[key].data, entry>>)
    ELSE IF key.type = "TTL" /\ isLive(entry.data, ledgerSeqNext)
    THEN Failure("Restored entry from live BucketList is not expired", <<entry, entry>>)
    ELSE NoFailure

\* checkRestoreInvariants, the body of the fourth loop.
checkRestoredFromLive(preloadedLiveEntries, preloadedArchivedEntries, key, entry, ledgerSeqNext) ==
    IF Has(preloadedArchivedEntries, key)
    THEN Failure("Restored entry from live BucketList exists in hot archive",
                 <<entry, preloadedArchivedEntries[key]>>)
    ELSE IF ~Has(preloadedLiveEntries, key)
    THEN Failure("Restored entry from live BucketList does not exist in live state", <<key>>)
    ELSE IF preloadedLiveEntries[key] # entry
    THEN Failure("Restored entry from live BucketList has incorrect value",
                 <<preloadedLiveEntries[key].data, entry>>)
    ELSE IF key.type = "TTL" /\ isLive(entry.data, ledgerSeqNext)
    THEN Failure("Restored entry from live BucketList is not expired", <<entry, entry>>)
    ELSE NoFailure

RECURSIVE checkRestoredFromLiveFrom(_, _, _, _, _, _)
checkRestoredFromLiveFrom(preloadedLiveEntries, preloadedArchivedEntries, restoredFromLiveState, order, i, ledgerSeqNext) ==
    IF i > Len(order) THEN NoFailure
    ELSE LET res == checkRestoredFromLive(preloadedLiveEntries, preloadedArchivedEntries,
                                          order[i], restoredFromLiveState[order[i]], ledgerSeqNext)
         IN IF res # NoFailure THEN res
            ELSE checkRestoredFromLiveFrom(preloadedLiveEntries, preloadedArchivedEntries,
                                           restoredFromLiveState, order, i + 1, ledgerSeqNext)

\* orderArchive and orderLive are the keys of the two unordered maps in the
\* order their iteration gives.
checkRestoreInvariants(preloadedLiveEntries, preloadedArchivedEntries, restoredFromArchive, orderArchive, restoredFromLiveState, orderLive, ledgerSeqNext, ledgerVer) ==
    LET r1 == checkRestoredKeysFrom(restoredFromLiveState, orderLive, 1, "live state") IN
    IF r1 # NoFailure THEN r1
    ELSE
    LET r2 == checkRestoredKeysFrom(restoredFromArchive, orderArchive, 1, "archive") IN
    IF r2 # NoFailure THEN r2
    ELSE
    LET r3 == checkRestoredFromArchiveFrom(preloadedLiveEntries, preloadedArchivedEntries,
                                           restoredFromArchive, orderArchive, 1, ledgerVer)
    IN
    IF r3 # NoFailure THEN r3
    ELSE checkRestoredFromLiveFrom(preloadedLiveEntries, preloadedArchivedEntries,
                                   restoredFromLiveState, orderLive, 1, ledgerSeqNext)

\* A faulty checkOnLedgerCommit: the sequence number of the snapshot is
\* taken for that of the ledger being committed.
checkOnLedgerCommit_lclSeq(in, orderDeleted, orderArchive, orderLive) ==
    IF protocolVersionIsBefore(in.lclLiveState.ledgerVersion,
                               FIRST_PROTOCOL_SUPPORTING_PERSISTENT_EVICTION)
    THEN NoFailure
    ELSE
    LET ledgerSeqNext == in.lclLiveState.ledgerSeq
        ledgerVers == in.lclLiveState.ledgerVersion
        keys == allKeys(in.evictedFromLive, in.deletedKeysFromLive,
                        in.restoredFromArchive, in.restoredFromLiveState)
        preloadedLiveEntries == preloadLive(in.lclLiveState.entries, keys)
        preloadedArchivedEntries == preloadArchived(in.lclHotArchiveState, keys)
        evictionRes == checkEvictionInvariants(preloadedLiveEntries, preloadedArchivedEntries,
                                               orderDeleted, in.evictedFromLive,
                                               ledgerSeqNext, ledgerVers)
        restoreRes == checkRestoreInvariants(preloadedLiveEntries, preloadedArchivedEntries,
                                             in.restoredFromArchive, orderArchive,
                                             in.restoredFromLiveState, orderLive,
                                             ledgerSeqNext, ledgerVers)
    IN
    IF evictionRes = Thrown THEN Thrown
    ELSE IF evictionRes = NoFailure /\ restoreRes = NoFailure THEN NoFailure
    ELSE evictionRes \o NewLine \o restoreRes

\* checkOnLedgerCommit for the arguments in; the orders are those of the
\* iteration of deletedKeys, restoredFromArchive and restoredFromLiveState.
checkOnLedgerCommit(in, orderDeleted, orderArchive, orderLive) ==
    IF protocolVersionIsBefore(in.lclLiveState.ledgerVersion,
                               FIRST_PROTOCOL_SUPPORTING_PERSISTENT_EVICTION)
    THEN NoFailure
    ELSE
    LET ledgerSeqNext == in.lclLiveState.ledgerSeq + 1
        ledgerVers == in.lclLiveState.ledgerVersion
        keys == allKeys(in.evictedFromLive, in.deletedKeysFromLive,
                        in.restoredFromArchive, in.restoredFromLiveState)
        preloadedLiveEntries == preloadLive(in.lclLiveState.entries, keys)
        preloadedArchivedEntries == preloadArchived(in.lclHotArchiveState, keys)
        evictionRes == checkEvictionInvariants(preloadedLiveEntries, preloadedArchivedEntries,
                                               orderDeleted, in.evictedFromLive,
                                               ledgerSeqNext, ledgerVers)
        restoreRes == checkRestoreInvariants(preloadedLiveEntries, preloadedArchivedEntries,
                                             in.restoredFromArchive, orderArchive,
                                             in.restoredFromLiveState, orderLive,
                                             ledgerSeqNext, ledgerVers)
    IN
    IF evictionRes = Thrown THEN Thrown
    ELSE IF evictionRes = NoFailure /\ restoreRes = NoFailure THEN NoFailure
    ELSE evictionRes \o NewLine \o restoreRes

\* The orders in which the elements of a set may be iterated.
Orders(S) == {q \in [1..Cardinality(S) -> S] : Range(q) = S}

----------------------------------------------------------------------------
(* The invariant applied to commits, sound and unsound, over a last closed *)
(* ledger that holds live, expired, archived and missing entries.          *)

CheckVersions == {22, V_23, V_24}

\* The sequence number of the last closed ledger.
LclSeq == 3

MaxEvicted == 2        \* entries evicted in a commit

BaseEntry(lk) == LedgerEntry(lk, 1, 0, 1)

\* The entry of a key and the entries that differ from it in one field.
Variants(lk) ==
    {BaseEntry(lk), LedgerEntry(lk, 2, 0, 1), LedgerEntry(lk, 1, 1, 1), LedgerEntry(lk, 1, 0, 2)}

TTLEntry(lk, liveUntilLedgerSeq) == LedgerEntry(getTTLKey(lk), liveUntilLedgerSeq, 0, 1)

\* The TTL entries of a key: expired at LclSeq + 1, and live for one more ledger.
TTLEntries(lk) == {TTLEntry(lk, LclSeq), TTLEntry(lk, LclSeq + 1)}

\* Nothing, or one element of S.
Optional(S) == {{}} \cup {{x} : x \in S}

EntryMap(entries) ==
    [k \in {LedgerEntryKey(e) : e \in entries} |-> CHOOSE e \in entries : LedgerEntryKey(e) = k]

HotArchiveMap(bucketEntries) ==
    LET keyOf(b) == IF b.type = "HOT_ARCHIVE_ARCHIVED" THEN LedgerEntryKey(b.archivedEntry)
                    ELSE b.key
    IN [k \in {keyOf(b) : b \in bucketEntries} |-> CHOOSE b \in bucketEntries : keyOf(b) = k]

\* The vectors of evicted entries: persistent entries of distinct keys.
EvictedVectors ==
    {q \in SeqsNoDup({BaseEntry(P1), LedgerEntry(P1, 2, 0, 1), LedgerEntry(P1, 1, 0, 2),
                      BaseEntry(P2)}, MaxEvicted) :
        \A i, j \in 1..Len(q) : i # j => LedgerEntryKey(q[i]) # LedgerEntryKey(q[j])}

CommitInput(version, entries, archive, evicted, deleted, fromArchive, fromLive) ==
    [lclLiveState |-> [ledgerVersion |-> version, ledgerSeq |-> LclSeq,
                       entries |-> EntryMap(entries)],
     lclHotArchiveState |-> HotArchiveMap(archive),
     evictedFromLive |-> evicted,
     deletedKeysFromLive |-> deleted,
     restoredFromArchive |-> EntryMap(fromArchive),
     restoredFromLiveState |-> EntryMap(fromLive)]

\* Commits that evict and delete, and restore nothing.
EvictionInputs ==
    {CommitInput(v, p1 \cup p1ttl \cup t1 \cup t1ttl \cup {BaseEntry(P2), TTLEntry(P2, LclSeq)},
                 h, ev, del, {}, {}) :
        v \in CheckVersions,
        p1 \in Optional({BaseEntry(P1)}), p1ttl \in Optional(TTLEntries(P1)),
        t1 \in Optional({BaseEntry(T1)}), t1ttl \in Optional(TTLEntries(T1)),
        h \in Optional({HotArchiveArchived(BaseEntry(P1))}),
        ev \in EvictedVectors,
        del \in SUBSET {T1, getTTLKey(P1), getTTLKey(T1), getTTLKey(P2)}}

\* Commits that restore, and evict and delete nothing.
RestoreInputs ==
    {CommitInput(v, p1 \cup p1ttl, h, <<>>, {}, a1 \cup a2 \cup a3, l1 \cup l2 \cup l3) :
        v \in CheckVersions,
        p1 \in Optional({BaseEntry(P1)}), p1ttl \in Optional(TTLEntries(P1)),
        h \in Optional({HotArchiveArchived(BaseEntry(P1)), HotArchiveLive(P1)}),
        a1 \in Optional(Variants(P1)),
        a2 \in Optional({TTLEntry(P1, LclSeq + minPersistentTTL)}),
        a3 \in Optional({BaseEntry(T1)}),
        l1 \in Optional({BaseEntry(P1), LedgerEntry(P1, 2, 0, 1), LedgerEntry(P1, 1, 0, 2)}),
        l2 \in Optional(TTLEntries(P1)),
        l3 \in Optional({BaseEntry(A1)})}

\* Commits whose evicted entries are not all persistent: a temporary entry
\* or an account, alone or with a persistent entry before or after it.
NonPersistentEvictions ==
    {CommitInput(v, {BaseEntry(T1), TTLEntry(T1, LclSeq), BaseEntry(P2), TTLEntry(P2, LclSeq),
                     BaseEntry(A1)},
                 {}, ev, del, {}, {}) :
        v \in CheckVersions,
        ev \in {<<BaseEntry(T1)>>, <<BaseEntry(A1)>>, <<BaseEntry(P2), BaseEntry(T1)>>,
                <<BaseEntry(T1), BaseEntry(P2)>>, <<BaseEntry(P1), BaseEntry(T1)>>},
        del \in SUBSET {getTTLKey(T1), getTTLKey(P2)}}

InitCheck ==
    /\ commit \in {[called |-> TRUE, returned |-> FALSE, in |-> in, res |-> NoFailure] :
                     in \in EvictionInputs \cup RestoreInputs \cup NonPersistentEvictions}
    /\ ledgerVersion = commit.in.lclLiveState.ledgerVersion
    /\ ledgerSeq = LclSeq + 1
    /\ live = EmptyMap
    /\ hot = EmptyMap
    /\ ltx = EmptyMap
    /\ restoredHot = {}
    /\ restoredLive = {}
    /\ nOps = 0
    /\ last = NoLast
    /\ evictedPayload = EmptyMap
    /\ startup = NoStartup
    /\ manager = NoManager
    /\ metering = NoMetering
    /\ inflation = NoInflation

\* ArchivedStateConsistency::checkOnLedgerCommit is called with the commit.
CheckOnLedgerCommit ==
    /\ commit.called /\ ~commit.returned
    /\ \E orderDeleted \in Orders(commit.in.deletedKeysFromLive),
          orderArchive \in Orders(DOMAIN commit.in.restoredFromArchive),
          orderLive \in Orders(DOMAIN commit.in.restoredFromLiveState) :
         commit' = [commit EXCEPT !.returned = TRUE,
                                  !.res = checkOnLedgerCommit(commit.in, orderDeleted,
                                                              orderArchive, orderLive)]
    /\ UNCHANGED <<ledgerVersion, ledgerSeq, live, hot, ltx, restoredHot, restoredLive,
                   nOps, last, evictedPayload, startup, manager, metering, inflation>>

NextCheck == CheckOnLedgerCommit

SpecCheck == InitCheck /\ [][NextCheck]_vars

----------------------------------------------------------------------------
(* ArchivedStateConsistency::start: the scan made once at startup over the *)
(* complete live state and the complete hot archive state                  *)

\* operator< of LedgerKey: by the type of the key, then by its fields.
KeyRank(lk) ==
    LET t == CASE lk.type = "ACCOUNT" -> 0
               [] lk.type = "CONTRACT_DATA" -> 1
               [] lk.type = "CONTRACT_CODE" -> 2
               [] lk.type = "TTL" -> 3
    IN t * 8 + lk.id

KeyLess(a, b) == KeyRank(a) < KeyRank(b)

\* The keys of a std::map in the order of its iteration.
SortedKeys(m) ==
    CHOOSE q \in Orders(DOMAIN m) : \A i, j \in 1..Len(q) : i < j => KeyLess(q[i], q[j])

\* A faulty walk: after an archived key below the live key, both iterators
\* advance.
startWalk_advancesBoth(archived, liveState, i, j) ==
    IF i > Len(archived) \/ j > Len(liveState) THEN <<"done", i, j>>
    ELSE IF KeyLess(archived[i], liveState[j]) THEN <<"step", i + 1, j + 1>>
    ELSE IF KeyLess(liveState[j], archived[i]) THEN <<"step", i, j + 1>>
    ELSE <<"same", i, j>>

\* One turn of the while loop of start: the loop ends, an iterator
\* advances, or the two iterators are at the same key.
startWalk(archived, liveState, i, j) ==
    IF i > Len(archived) \/ j > Len(liveState) THEN <<"done", i, j>>
    ELSE IF KeyLess(archived[i], liveState[j]) THEN <<"step", i + 1, j>>
    ELSE IF KeyLess(liveState[j], archived[i]) THEN <<"step", i, j + 1>>
    ELSE <<"same", i, j>>

RECURSIVE startLoop(_, _, _, _)
startLoop(archived, liveState, i, j) ==
    LET w == startWalk(archived, liveState, i, j) IN
    IF w[1] = "done" THEN NoFailure
    ELSE IF w[1] = "same"
    THEN Failure("ArchivedStateConsistency:: Entry with the same key is present in both live and archived state",
                 <<archived[i]>>)
    ELSE startLoop(archived, liveState, w[2], w[3])

\* ArchivedStateConsistency::start, for the protocol version of the last
\* closed ledger and the two complete states.
start(protocolVersion, archived, liveState) ==
    IF protocolVersionIsBefore(protocolVersion,
                               FIRST_PROTOCOL_SUPPORTING_PERSISTENT_EVICTION)
    THEN NoFailure
    ELSE startLoop(SortedKeys(archived), SortedKeys(liveState), 1, 1)

\* The complete states the scan is run on: every set of keys, sound or not.
CompleteStates == {[k \in keys |-> BaseEntry(k)] : keys \in SUBSET (DataKeys \cup {getTTLKey(P1)})}

InitStart ==
    /\ ledgerVersion \in CheckVersions
    /\ startup \in {[called |-> TRUE, returned |-> FALSE, archived |-> a, live |-> l,
                     res |-> NoFailure] : a \in CompleteStates, l \in CompleteStates}
    /\ ledgerSeq = LclSeq + 1
    /\ live = EmptyMap
    /\ hot = EmptyMap
    /\ ltx = EmptyMap
    /\ restoredHot = {}
    /\ restoredLive = {}
    /\ nOps = 0
    /\ last = NoLast
    /\ evictedPayload = EmptyMap
    /\ commit = NoCommit
    /\ manager = NoManager
    /\ metering = NoMetering
    /\ inflation = NoInflation

\* The application starts: the invariant's start is run once.
Start ==
    /\ startup.called /\ ~startup.returned
    /\ startup' = [startup EXCEPT !.returned = TRUE,
                                  !.res = start(ledgerVersion, startup.archived, startup.live)]
    /\ UNCHANGED <<ledgerVersion, ledgerSeq, live, hot, ltx, restoredHot, restoredLive,
                   nOps, last, evictedPayload, commit, manager, metering, inflation>>

NextStart == Start

SpecStart == InitStart /\ [][NextStart]_vars

----------------------------------------------------------------------------
(* InvariantManagerImpl: registration, enabling by pattern, and the        *)
(* handling of failed checks. Names and patterns are sequences of          *)
(* characters.                                                             *)

V_8 == 8

MaxFailureCount == 2   \* failures counted before the last event

\* The registered invariants of the model, by abbreviated names.
AccountSubEntriesCountIsValid == <<"A", "c">>
ArchivedStateConsistency == <<"A", "r">>
EventsAreConsistentWithEntryDiffs == <<"E">>

InvariantNames ==
    {AccountSubEntriesCountIsValid, ArchivedStateConsistency, EventsAreConsistentWithEntryDiffs}

\* Invariant::isStrict, fixed by the constructor of each invariant.
isStrict(name) == name = ArchivedStateConsistency

\* The characters of names and patterns, their codes and their lower case.
CharCode ==
    ("*" :> 42) @@ ("." :> 46) @@ ("A" :> 65) @@ ("C" :> 67) @@ ("E" :> 69) @@ ("R" :> 82)
    @@ ("Z" :> 90) @@ ("a" :> 97) @@ ("c" :> 99) @@ ("e" :> 101) @@ ("r" :> 114)
    @@ ("z" :> 122)

ToLower(ch) == IF CharCode[ch] \in 65..90
               THEN CHOOSE l \in DOMAIN CharCode : CharCode[l] = CharCode[ch] + 32
               ELSE ch

\* operator< of std::string, the order of the std::map mInvariants.
RECURSIVE NameLessFrom(_, _, _)
NameLessFrom(a, b, i) ==
    IF i > Len(b) THEN FALSE
    ELSE IF i > Len(a) THEN TRUE
    ELSE IF CharCode[a[i]] # CharCode[b[i]] THEN CharCode[a[i]] < CharCode[b[i]]
    ELSE NameLessFrom(a, b, i + 1)

NameLess(a, b) == NameLessFrom(a, b, 1)

SortedNames(S) ==
    CHOOSE q \in Orders(S) : \A i, j \in 1..Len(q) : i < j => NameLess(q[i], q[j])

\* std::regex(pattern, ECMAScript | icase) throws regex_error: in the
\* patterns of the model, for a '*' with nothing to repeat.
regexError(pattern) ==
    \E i \in 1..Len(pattern) : pattern[i] = "*" /\ (i = 1 \/ pattern[i - 1] = "*")

\* A pattern character matches a character of the name, case ignored.
charMatch(pc, ch) == pc = "." \/ ToLower(pc) = ToLower(ch)

\* The pattern from position i matches the name from position j to its end.
RECURSIVE regexMatchFrom(_, _, _, _)
regexMatchFrom(pattern, i, name, j) ==
    IF i > Len(pattern) THEN j > Len(name)
    ELSE IF i < Len(pattern) /\ pattern[i + 1] = "*"
    THEN \/ regexMatchFrom(pattern, i + 2, name, j)
         \/ /\ j <= Len(name)
            /\ charMatch(pattern[i], name[j])
            /\ regexMatchFrom(pattern, i, name, j + 1)
    ELSE /\ j <= Len(name)
         /\ charMatch(pattern[i], name[j])
         /\ regexMatchFrom(pattern, i + 1, name, j + 1)

\* A faulty regex_match: the pattern need only match a prefix of the name.
regex_match_prefix(name, pattern) ==
    \E n \in 1..Len(name) : regexMatchFrom(pattern, 1, SubSeq(name, 1, n), 1)

\* std::regex_match(name, r, match_not_null): the whole name matches.
regex_match(name, pattern) == regexMatchFrom(pattern, 1, name, 1)

\* The event the manager handled last.
NoEvent ==
    [kind |-> "none", error |-> "none", what |-> "", arg |-> <<>>, ran |-> <<>>,
     results |-> EmptyMap, ledger |-> 0, pre |-> [none |-> TRUE]]

\* InvariantManagerImpl::InvariantManagerImpl
NewManager ==
    [made |-> TRUE, mInvariants |-> {}, mEnabled |-> <<>>, mInvariantFailureCount |-> 0,
     mFailureInformation |-> EmptyMap, aborted |-> FALSE, event |-> NoEvent]

\* The members an event starts from.
Members(m) ==
    [mInvariants |-> m.mInvariants, mEnabled |-> m.mEnabled,
     mInvariantFailureCount |-> m.mInvariantFailureCount,
     mFailureInformation |-> m.mFailureInformation]

\* An exception leaves the function.
Throw(m, error, what) == [m EXCEPT !.event.error = error, !.event.what = what]

\* InvariantManagerImpl::registerInvariant
registerInvariant(m, name) ==
    IF name \notin m.mInvariants
    THEN [m EXCEPT !.mInvariants = @ \cup {name}]
    ELSE Throw(m, "runtime_error", "already registered")

\* A faulty loop of enableInvariant: a match is pushed whether or not it is
\* enabled already.
RECURSIVE enableFrom_pushesAgain(_, _, _, _, _)
enableFrom_pushesAgain(m, names, pattern, i, enabledSome) ==
    IF i > Len(names)
    THEN IF ~enabledSome
         THEN Throw(m, "runtime_error", "did not match any invariants")
         ELSE m
    ELSE IF regex_match(names[i], pattern)
    THEN enableFrom_pushesAgain([m EXCEPT !.mEnabled = Append(@, names[i])],
                                names, pattern, i + 1, TRUE)
    ELSE enableFrom_pushesAgain(m, names, pattern, i + 1, enabledSome)

\* The loop of enableInvariant over mInvariants, in the order of the map.
RECURSIVE enableFrom(_, _, _, _, _)
enableFrom(m, names, pattern, i, enabledSome) ==
    IF i > Len(names)
    THEN IF ~enabledSome
         THEN Throw(m, "runtime_error", "did not match any invariants")
         ELSE m
    ELSE IF regex_match(names[i], pattern)
    THEN IF names[i] \notin Range(m.mEnabled)
         THEN enableFrom([m EXCEPT !.mEnabled = Append(@, names[i])],
                         names, pattern, i + 1, TRUE)
         ELSE Throw(m, "runtime_error", "already enabled")
    ELSE enableFrom(m, names, pattern, i + 1, enabledSome)

\* InvariantManagerImpl::enableInvariant
enableInvariant(m, invPattern) ==
    IF invPattern = <<>>
    THEN Throw(m, "invalid_argument", "Invariant pattern must be non empty")
    ELSE IF regexError(invPattern)
    THEN Throw(m, "invalid_argument", "Invalid invariant pattern")
    ELSE enableFrom(m, SortedNames(m.mInvariants), invPattern, 1, FALSE)

\* A faulty handleInvariantFailure: a failure of a lax invariant ends the
\* event as well.
handleInvariantFailure_alwaysThrows(m, name, message) ==
    [Throw(m, "InvariantDoesNotHold", message) EXCEPT !.aborted = TRUE]

\* InvariantManagerImpl::handleInvariantFailure
handleInvariantFailure(m, name, message) ==
    IF isStrict(name)
    THEN [Throw(m, "InvariantDoesNotHold", message) EXCEPT !.aborted = TRUE]
    ELSE m

\* InvariantManagerImpl::onInvariantFailure
onInvariantFailure(m, name, message, ledger) ==
    LET counted == [m EXCEPT !.mInvariantFailureCount = @ + 1]
        recorded == [counted EXCEPT !.mFailureInformation =
                        Put(@, name, [lastFailedOnLedger |-> ledger,
                                      lastFailedWithMessage |-> message])]
    IN handleInvariantFailure(recorded, name, message)

\* The message of a failed check.
Message(name, event, result) == [invariant |-> name, on |-> event, result |-> result]

\* checkOnOperationApply skips, before protocol 8, every invariant but one.
skippedOnOperation(name, version) ==
    /\ protocolVersionIsBefore(version, V_8)
    /\ name # EventsAreConsistentWithEntryDiffs

\* The loop over mEnabled of the three check events; results gives what
\* each invariant's check returns, the empty string when it holds.
RECURSIVE checkFrom(_, _, _, _, _, _)
checkFrom(m, kind, version, results, ledger, i) ==
    IF i > Len(m.mEnabled) \/ m.event.error # "none" THEN m
    ELSE LET name == m.mEnabled[i] IN
         IF kind = "operation" /\ skippedOnOperation(name, version)
         THEN checkFrom(m, kind, version, results, ledger, i + 1)
         ELSE LET ranIt == [m EXCEPT !.event.ran = Append(@, name)] IN
              IF results[name] = ""
              THEN checkFrom(ranIt, kind, version, results, ledger, i + 1)
              ELSE checkFrom(onInvariantFailure(ranIt, name,
                                                Message(name, kind, results[name]), ledger),
                             kind, version, results, ledger, i + 1)

\* The event of kind k with argument arg begins.
Begin(m, k, arg, results, ledger) ==
    [m EXCEPT !.event = [kind |-> k, error |-> "none", what |-> "", arg |-> arg,
                         ran |-> <<>>, results |-> results, ledger |-> ledger,
                         pre |-> Members(m)]]

\* The patterns given to enableInvariant.
Patterns ==
    {<<>>, <<"*">>, <<".", "*">>, <<"A", ".">>, <<"a", "C">>, <<"A", "R">>, <<"e">>,
     <<"A">>, <<"A", "c", "*">>, <<"Z">>}

Results(m) == [Range(m.mEnabled) -> {"", "violated"}]

\* The members of the manager change, the ledger does not.
ManagerOnly ==
    UNCHANGED <<ledgerVersion, ledgerSeq, live, hot, ltx, restoredHot, restoredLive,
                nOps, last, evictedPayload, commit, startup, metering, inflation>>

Running == manager.made /\ ~manager.aborted

RegisterInvariant ==
    /\ Running
    /\ \E name \in InvariantNames :
         manager' = registerInvariant(Begin(manager, "register", name, EmptyMap, 0), name)
    /\ ManagerOnly

EnableInvariant ==
    /\ Running
    /\ \E invPattern \in Patterns :
         manager' = enableInvariant(Begin(manager, "enable", invPattern, EmptyMap, 0),
                                    invPattern)
    /\ ManagerOnly

\* checkOnOperationApply for an operation of a ledger with sequence number
\* seq and protocol version.
CheckOnOperationApply ==
    /\ Running
    /\ manager.mInvariantFailureCount < MaxFailureCount
    /\ \E version \in {7, V_8}, seq \in {2, 3}, results \in Results(manager) :
         manager' = checkFrom(Begin(manager, "operation", <<version>>, results, seq),
                              "operation", version, results, seq, 1)
    /\ ManagerOnly

\* checkOnBucketApply for a bucket of ledger 1.
CheckOnBucketApply ==
    /\ Running
    /\ manager.mInvariantFailureCount < MaxFailureCount
    /\ \E results \in Results(manager) :
         manager' = checkFrom(Begin(manager, "bucket", <<>>, results, 1),
                              "bucket", V_8, results, 1, 1)
    /\ ManagerOnly

\* checkAfterAssumeState: the failure is recorded for ledger 0.
CheckAfterAssumeState ==
    /\ Running
    /\ manager.mInvariantFailureCount < MaxFailureCount
    /\ \E results \in Results(manager) :
         manager' = checkFrom(Begin(manager, "assume", <<>>, results, 0),
                              "assume", V_8, results, 0, 1)
    /\ ManagerOnly

InitManager ==
    /\ manager = NewManager
    /\ metering = NoMetering
    /\ inflation = NoInflation
    /\ ledgerVersion = V_23
    /\ ledgerSeq = 1
    /\ live = EmptyMap
    /\ hot = EmptyMap
    /\ ltx = EmptyMap
    /\ restoredHot = {}
    /\ restoredLive = {}
    /\ nOps = 0
    /\ last = NoLast
    /\ evictedPayload = EmptyMap
    /\ commit = NoCommit
    /\ startup = NoStartup

NextManager ==
    \/ RegisterInvariant
    \/ EnableInvariant
    \/ CheckOnOperationApply
    \/ CheckOnBucketApply
    \/ CheckAfterAssumeState

SpecManager == InitManager /\ [][NextManager]_vars

----------------------------------------------------------------------------
(* The byte counters at their width: mLedgerReadByte, mLedgerWriteByte and  *)
(* mEmitEventByte are uint32_t, the sizes added to them are size_t values   *)
(* cast to uint32_t. The width is scaled down to CounterBits bits; beside   *)
(* each counter the record keeps the sum of the sizes as the buffers had    *)
(* them.                                                                    *)

\* The number of values of a counter (2^32 in the code).
U32 == 2 ^ CounterBits

\* static_cast<uint32_t>(size)
toU32(size) == size % U32

\* uint32_t += uint32_t
addU32(counter, size) == (counter + size) % U32

\* The sizes of the buffers and entries (size_t).
BufferSizes == {1, 2, 7, 14, 16, 17}

\* The budgets a transaction declares and the limit of the network
\* configuration on the events (uint32).
DeclaredBytes == {2, 8, 15}

\* The metrics of an operation that starts, with its declared resources.
NewMetering(op, diskReadBytes, writeBytes, maxEvents) ==
    [op |-> op, stage |-> "start", failed |-> FALSE, n |-> 0,
     diskReadBytes |-> diskReadBytes, writeBytes |-> writeBytes,
     txMaxContractEventsSizeBytes |-> maxEvents,
     mLedgerReadByte |-> 0, mLedgerWriteByte |-> 0, mEmitEventByte |-> 0,
     read |-> 0, written |-> 0, emitted |-> 0, room |-> TRUE]

\* One more size is taken; room: no addition so far could pass the largest
\* value of a counter.
Metered(m, stage, budget, size) ==
    [m EXCEPT !.stage = stage, !.n = @ + 1, !.room = @ /\ budget + size < U32]

\* noteDiskReadEntry and meterDiskReadResource
meterDiskReadResourceU32(m, size) ==
    LET counted == [Metered(m, "reads", m.diskReadBytes, size) EXCEPT
                       !.mLedgerReadByte = addU32(@, toU32(size)),
                       !.read = @ + size]
    IN [counted EXCEPT !.failed = counted.diskReadBytes < counted.mLedgerReadByte]

\* noteWriteEntry and the test of the write bytes in the loop over the
\* entries the host returned
noteWriteEntryU32(m, size) ==
    LET counted == [Metered(m, "writes", m.writeBytes, size) EXCEPT
                       !.mLedgerWriteByte = addU32(@, toU32(size)),
                       !.written = @ + size]
    IN [counted EXCEPT !.failed = counted.writeBytes < counted.mLedgerWriteByte]

\* The body of the loop over out.contract_events
emitEventU32(m, size) ==
    LET counted == [Metered(m, "events", m.txMaxContractEventsSizeBytes, size) EXCEPT
                       !.mEmitEventByte = addU32(@, toU32(size)),
                       !.emitted = @ + size]
    IN [counted EXCEPT
           !.failed = counted.txMaxContractEventsSizeBytes < counted.mEmitEventByte]

\* The return value is added to the event bytes; the operation succeeds
\* when the limit holds.
returnValueU32(m, size) == [emitEventU32(m, size) EXCEPT !.stage = "done"]

\* The body of the loop of RestoreFootprintOpFrame::doApply for an archived
\* entry: the write bytes are counted when the read bytes passed.
restoreEntryU32(m, size) ==
    LET r == [meterDiskReadResourceU32(m, size) EXCEPT !.stage = "restores"] IN
    IF r.failed THEN r
    ELSE LET w == [r EXCEPT !.mLedgerWriteByte = addU32(@, toU32(size)),
                            !.written = @ + size,
                            !.room = @ /\ r.writeBytes + size < U32]
         IN [w EXCEPT !.failed = w.writeBytes < w.mLedgerWriteByte]

StageRank(stage) ==
    CASE stage = "start" -> 0
      [] stage = "reads" -> 1
      [] stage = "writes" -> 2
      [] stage = "events" -> 3
      [] OTHER -> 4

\* The operation is at or before the stage and has not returned.
MeteringAt(op, stage) ==
    /\ metering.op = op
    /\ ~metering.failed
    /\ metering.n < MaxMetered
    /\ StageRank(metering.stage) <= StageRank(stage)

MeteringOnly ==
    UNCHANGED <<ledgerVersion, ledgerSeq, live, hot, ltx, restoredHot, restoredLive,
                nOps, last, evictedPayload, commit, startup, manager, inflation>>

\* An operation starts with the resources its transaction declared.
BeginMetering ==
    /\ metering.op = "none"
    /\ \E op \in {"invoke", "restore"}, r \in DeclaredBytes, w \in DeclaredBytes,
          e \in DeclaredBytes :
         metering' = NewMetering(op, r, w, e)
    /\ MeteringOnly

\* addReads meters an entry read from disk.
MeterDiskRead ==
    /\ MeteringAt("invoke", "reads")
    /\ \E size \in BufferSizes : metering' = meterDiskReadResourceU32(metering, size)
    /\ MeteringOnly

\* The host returned an entry that is not a TTL entry.
MeterWrite ==
    /\ MeteringAt("invoke", "writes")
    /\ \E size \in BufferSizes : metering' = noteWriteEntryU32(metering, size)
    /\ MeteringOnly

\* The host returned an event.
MeterEvent ==
    /\ MeteringAt("invoke", "events")
    /\ \E size \in BufferSizes : metering' = emitEventU32(metering, size)
    /\ MeteringOnly

\* The return value of the host function.
MeterReturnValue ==
    /\ metering.op = "invoke" /\ ~metering.failed /\ metering.stage # "done"
    /\ \E size \in BufferSizes : metering' = returnValueU32(metering, size)
    /\ MeteringOnly

\* doApply restores an archived entry of the footprint.
MeterRestore ==
    /\ metering.op = "restore" /\ ~metering.failed /\ metering.n < MaxMetered
    /\ \E size \in BufferSizes : metering' = restoreEntryU32(metering, size)
    /\ MeteringOnly

InitWidth ==
    /\ metering = NoMetering
    /\ inflation = NoInflation
    /\ manager = NoManager
    /\ ledgerVersion = V_23
    /\ ledgerSeq = 1
    /\ live = EmptyMap
    /\ hot = EmptyMap
    /\ ltx = EmptyMap
    /\ restoredHot = {}
    /\ restoredLive = {}
    /\ nOps = 0
    /\ last = NoLast
    /\ evictedPayload = EmptyMap
    /\ commit = NoCommit
    /\ startup = NoStartup

NextWidth ==
    \/ BeginMetering
    \/ MeterDiskRead
    \/ MeterWrite
    \/ MeterEvent
    \/ MeterReturnValue
    \/ MeterRestore

SpecWidth == InitWidth /\ [][NextWidth]_vars

----------------------------------------------------------------------------
(* InflationOpFrame: the weekly inflation of the classic ledger. Amounts    *)
(* are scaled: the two ratios of the code are kept, reduced to lowest       *)
(* terms that fit 32-bit integers.                                       *)

INFLATION_FREQUENCY == 604800
INFLATION_START_TIME == 1404172800
\* INFLATION_RATE_TRILLIONTHS / TRILLION = 190721000 / 10^12
INFLATION_RATE_BILLIONTHS == 190721
BILLION == 1000000000
\* INFLATION_WIN_MIN_PERCENT / TRILLION = 500000000 / 10^12
INFLATION_WIN_MIN_TEN_THOUSANDTHS == 5
TEN_THOUSAND == 10000
V_10 == 10
V_12 == 12

\* The accounts of the ledger; GX is the identifier of no account.
AccountIDs == {"GA", "GB", "GC"}

NoDest == "none"

AccountRank(id) ==
    CASE id = "GA" -> 1 [] id = "GB" -> 2 [] id = "GC" -> 3 [] OTHER -> 4

\* bigDivideOrThrow(a, b, c, ROUND_DOWN): the result, and whether it throws
\* because the result does not fit.
bigDivide(a, b, c) == (a * b) \div c

bigDivideThrows(a, b, c) == bigDivide(a, b, c) > INT64_MAX

\* The sum of the balances of a set of accounts.
RECURSIVE SumBalances(_, _)
SumBalances(accounts, ids) ==
    IF ids = {} THEN 0
    ELSE LET id == CHOOSE x \in ids : TRUE
         IN accounts[id].balance + SumBalances(accounts, ids \ {id})

\* The votes an inflation destination has: the balances of its voters.
Votes(accounts, dest) ==
    SumBalances(accounts, {id \in DOMAIN accounts : accounts[id].inflationDest = dest})

\* The first n of the candidates by votes, the larger identifier first
\* among equal votes.
RECURSIVE topWinners(_, _, _)
topWinners(accounts, candidates, n) ==
    IF n = 0 \/ candidates = {} THEN <<>>
    ELSE LET best == CHOOSE c \in candidates : \A o \in candidates :
                        \/ Votes(accounts, c) > Votes(accounts, o)
                        \/ /\ Votes(accounts, c) = Votes(accounts, o)
                           /\ AccountRank(c) >= AccountRank(o)
         IN <<[accountID |-> best, votes |-> Votes(accounts, best)]>>
            \o topWinners(accounts, candidates \ {best}, n - 1)

\* ltx.queryInflationWinners(maxWinners, minBalance)
queryInflationWinners(accounts, maxWinners, minBalance) ==
    topWinners(accounts,
               {d \in {accounts[id].inflationDest : id \in DOMAIN accounts} \ {NoDest} :
                   Votes(accounts, d) >= minBalance},
               maxWinners)

\* getMaxAmountReceive(header, account)
getMaxAmountReceive(version, account) ==
    IF version >= V_10
    THEN INT64_MAX - account.balance - account.buying
    ELSE INT64_MAX

\* addBalance(header, account, delta) returns true
addBalanceOk(version, account, delta) ==
    /\ account.balance + delta <= INT64_MAX
    /\ version >= V_10 => delta <= INT64_MAX - account.balance - account.buying

\* A faulty body of the loop: what a winner receives is not taken from
\* what is left.
payWinner_keepsLeft(version, s, w, amountToDole, totalVotes) ==
    LET toDoleThisWinner == bigDivide(amountToDole, w.votes, totalVotes) IN
    IF toDoleThisWinner = 0 \/ w.accountID \notin DOMAIN s.accounts THEN s
    ELSE [s EXCEPT !.accounts[w.accountID].balance = @ + toDoleThisWinner,
                   !.payouts = Append(@, [destination |-> w.accountID,
                                          amount |-> toDoleThisWinner])]

\* The body of the loop over the winners.
payWinner(version, s, w, amountToDole, totalVotes) ==
    IF bigDivideThrows(amountToDole, w.votes, totalVotes)
    THEN [s EXCEPT !.thrown = TRUE]
    ELSE
    LET share == bigDivide(amountToDole, w.votes, totalVotes)
        exists == w.accountID \in DOMAIN s.accounts
        toDoleThisWinner ==
            IF version >= V_10 /\ exists
            THEN LET room == getMaxAmountReceive(version, s.accounts[w.accountID])
                 IN IF room < share THEN room ELSE share
            ELSE share
    IN
    IF share = 0 \/ toDoleThisWinner = 0 \/ ~exists THEN s
    ELSE IF ~addBalanceOk(version, s.accounts[w.accountID], toDoleThisWinner)
    THEN [s EXCEPT !.thrown = TRUE]
    ELSE [s EXCEPT !.leftAfterDole = @ - toDoleThisWinner,
                   !.lh.totalCoins = IF version < V_8 THEN @ + toDoleThisWinner ELSE @,
                   !.accounts[w.accountID].balance = @ + toDoleThisWinner,
                   !.payouts = Append(@, [destination |-> w.accountID,
                                          amount |-> toDoleThisWinner])]

\* for (auto const& w : winners)
RECURSIVE doleFrom(_, _, _, _, _, _)
doleFrom(version, s, winners, i, amountToDole, totalVotes) ==
    IF i > Len(winners) \/ s.thrown THEN s
    ELSE doleFrom(version, payWinner(version, s, winners[i], amountToDole, totalVotes),
                  winners, i + 1, amountToDole, totalVotes)

NoResult == [code |-> "NONE", payouts |-> <<>>]

\* InflationOpFrame::doApply on the header and the accounts; an exception
\* leaves both as they were.
inflationDoApply(version, lh, accounts) ==
    IF lh.closeTime < INFLATION_START_TIME + lh.inflationSeq * INFLATION_FREQUENCY
    THEN [lh |-> lh, accounts |-> accounts,
          res |-> [code |-> "INFLATION_NOT_TIME", payouts |-> <<>>]]
    ELSE
    LET totalVotes == lh.totalCoins
        minBalance == bigDivide(totalVotes, INFLATION_WIN_MIN_TEN_THOUSANDTHS, TEN_THOUSAND)
        winners == queryInflationWinners(accounts, INFLATION_NUM_WINNERS, minBalance)
        inflationAmount == bigDivide(lh.totalCoins, INFLATION_RATE_BILLIONTHS, BILLION)
        amountToDole == inflationAmount + lh.feePool
        doled == doleFrom(version,
                          [lh |-> [lh EXCEPT !.feePool = 0, !.inflationSeq = @ + 1],
                           accounts |-> accounts, payouts |-> <<>>,
                           leftAfterDole |-> amountToDole, thrown |-> FALSE],
                          winners, 1, amountToDole, totalVotes)
    IN
    IF doled.thrown
    THEN [lh |-> lh, accounts |-> accounts,
          res |-> [code |-> "EXCEPTION", payouts |-> <<>>]]
    ELSE [lh |-> [doled.lh EXCEPT
                     !.feePool = @ + doled.leftAfterDole,
                     !.totalCoins = IF version >= V_8 THEN @ + inflationAmount ELSE @],
          accounts |-> doled.accounts,
          res |-> [code |-> "INFLATION_SUCCESS", payouts |-> doled.payouts]]

\* InflationOpFrame::isOpSupported
inflationIsOpSupported(version) == version < V_12

InflationOnly ==
    UNCHANGED <<ledgerVersion, ledgerSeq, live, hot, ltx, restoredHot, restoredLive,
                nOps, last, evictedPayload, commit, startup, manager, metering>>

\* An inflation operation is applied.
ApplyInflation ==
    /\ inflation.made
    /\ inflation.n < MaxInflations
    /\ inflationIsOpSupported(ledgerVersion)
    /\ LET r == inflationDoApply(ledgerVersion, inflation.lh, inflation.accounts) IN
       inflation' = [inflation EXCEPT
                        !.lh = r.lh, !.accounts = r.accounts, !.res = r.res,
                        !.n = @ + 1, !.event = "apply",
                        !.pre = [lh |-> inflation.lh, accounts |-> inflation.accounts]]
    /\ InflationOnly

\* Ledgers close until a week has passed.
CloseTimeAdvances ==
    /\ inflation.made
    /\ inflation.lh.closeTime < INFLATION_START_TIME + MaxInflations * INFLATION_FREQUENCY
    /\ inflation' = [inflation EXCEPT
                        !.lh.closeTime = @ + INFLATION_FREQUENCY, !.event = "close"]
    /\ InflationOnly

\* The balances the accounts start with.
StartBalances == {4, 1000, 5000}

\* The accounts the ledger starts with. Only the first has liabilities,
\* which leave it room to receive fifty, nothing, or everything.
StartAccounts(version) ==
    {[id \in AccountIDs |->
        [balance |-> IF id = "GA" THEN a ELSE IF id = "GB" THEN b ELSE 1000,
         inflationDest |-> IF id = "GA" THEN da ELSE IF id = "GB" THEN db ELSE dc,
         buying |-> IF id = "GA" THEN l ELSE 0]] :
        a \in StartBalances, b \in StartBalances \ {1000},
        da \in {NoDest, "GA", "GB", "GX"}, db \in {"GA", "GB", "GX"},
        dc \in {NoDest, "GC"},
        l \in IF version >= V_10 THEN {0, 1} ELSE {0}}

\* sell and buy liabilities exist from protocol 10 on.
WithLiabilities(accounts, room) ==
    [accounts EXCEPT !["GA"].buying = IF @ = 0 THEN 0 ELSE INT64_MAX - accounts["GA"].balance - room]

InitInflation ==
    /\ ledgerVersion \in {7, V_8, 9, V_10, 11}
    /\ \E closeTime \in {INFLATION_START_TIME - 1, INFLATION_START_TIME},
          inflationSeq \in {0, 1}, totalCoins \in {6000, 10500}, feePool \in {0, 500},
          accounts \in StartAccounts(ledgerVersion), room \in {0, 50} :
         /\ SumBalances(accounts, AccountIDs) + feePool <= totalCoins
         /\ accounts["GA"].buying = 0 => room = 0
         /\ inflation = [made |-> TRUE,
                         lh |-> [closeTime |-> closeTime, inflationSeq |-> inflationSeq,
                                 totalCoins |-> totalCoins, feePool |-> feePool],
                         accounts |-> WithLiabilities(accounts, room),
                         res |-> NoResult, n |-> 0, event |-> "none", pre |-> NotKept]
    /\ metering = NoMetering
    /\ manager = NoManager
    /\ ledgerSeq = 1
    /\ live = EmptyMap
    /\ hot = EmptyMap
    /\ ltx = EmptyMap
    /\ restoredHot = {}
    /\ restoredLive = {}
    /\ nOps = 0
    /\ last = NoLast
    /\ evictedPayload = EmptyMap
    /\ commit = NoCommit
    /\ startup = NoStartup

NextInflation ==
    \/ ApplyInflation
    \/ CloseTimeAdvances

SpecInflation == InitInflation /\ [][NextInflation]_vars

----------------------------------------------------------------------------
(* Properties *)

\* The last operation succeeded and the ledger it was applied in is the
\* last closed ledger.
CommittedSuccess(kind) ==
    /\ last.kind = kind
    /\ last.code = "SUCCESS"
    /\ last.closed
    /\ ledgerSeq = last.seq + 1

(* C1: in every committed state the LiveStore and the HotArchive are       *)
(* disjoint: no key has an entry in both.                                  *)
C1_Disjoint == (DOMAIN live) \cap (DOMAIN hot) = {}

\* A key restored out of the archive is committed to the live state.
C1_Witness ==
    /\ last.kind \in {"invoke", "restore"}
    /\ last.code = "SUCCESS"
    /\ last.closed
    /\ ledgerSeq = last.seq + 1
    /\ \E k \in last.rHot : Has(live, k) /\ ~Has(hot, k)

(* C2: in every committed state a ContractData or ContractCode entry is in *)
(* the LiveStore exactly when its TTL entry is: every such entry has its   *)
(* TTL entry, and no TTL entry is left without its entry.                  *)
C2_TTLPaired ==
    \A k \in SorobanKeys : Has(live, k) <=> Has(live, getTTLKey(k))

\* An invoke that wrote and erased entries is committed: one entry is live
\* with its TTL entry, another is gone with its TTL entry.
C2_Witness ==
    /\ CommittedSuccess("invoke")
    /\ \E k1, k2 \in SorobanKeys :
         /\ Has(live, k1) /\ Has(live, getTTLKey(k1))
         /\ ~Has(live, k2) /\ ~Has(live, getTTLKey(k2)) /\ ~Has(hot, k2)
         /\ nOps = MaxOps

(* C3: a restore of a key that an earlier ledger evicted to the HotArchive *)
(* leaves the key in the LiveStore with the payload it had before the      *)
(* eviction and the TTL ledgerSeq + minPersistentTTL - 1, and, once the    *)
(* ledger is committed, absent from the HotArchive.                        *)
C3_RoundTrip ==
    (last.kind = "restore" /\ last.code = "SUCCESS") =>
        \A k \in last.rHot :
            /\ Has(evictedPayload, k)
            /\ ~last.closed =>
                  /\ Has(ltx, k) /\ ltx[k] = evictedPayload[k]
                  /\ Has(ltx, getTTLKey(k))
                  /\ ltx[getTTLKey(k)] = last.seq + minPersistentTTL - 1
            /\ (last.closed /\ ledgerSeq = last.seq + 1) =>
                  /\ Has(live, k) /\ live[k] = evictedPayload[k]
                  /\ Has(live, getTTLKey(k))
                  /\ live[getTTLKey(k)] = last.seq + minPersistentTTL - 1
                  /\ ~Has(hot, k)

\* An entry with payload 2 was evicted, restored, and the restore committed.
C3_Witness ==
    /\ CommittedSuccess("restore")
    /\ \E k \in last.rHot : Has(live, k) /\ live[k] = 2 /\ evictedPayload[k] = 2

\* The keys of a footprint list that are live in a view at a ledger.
LiveKeys(keys, view, seq) ==
    {k \in Range(keys) : Has(view, getTTLKey(k)) /\ isLive(view[getTTLKey(k)], seq)}

(* C4: a restore of a key that is live (its TTL entry exists and is not    *)
(* expired) does nothing for that key: neither the entry nor its TTL entry *)
(* is written, no bytes are metered for it and no rent change is recorded; *)
(* a restore of live keys only succeeds and leaves the state as it was.    *)
C4_RestoreLiveNoop ==
    (last.kind = "restore" /\ last.code # "MALFORMED" /\ ~last.closed) =>
        LET pre == last.pre.ltx
            liveKeys == LiveKeys(last.op.readWrite, pre, last.seq)
        IN
        /\ \A k \in liveKeys :
              /\ k \notin last.rHot \cup last.rLive
              /\ Has(ltx, k) = Has(pre, k)
              /\ Has(ltx, k) => ltx[k] = pre[k]
              /\ ltx[getTTLKey(k)] = pre[getTTLKey(k)]
        /\ Len(last.meter.rentChanges) = Cardinality(last.rHot \cup last.rLive)
        /\ liveKeys = Range(last.op.readWrite) =>
              /\ last.code = "SUCCESS"
              /\ ltx = pre
              /\ restoredHot = last.pre.restoredHot
              /\ restoredLive = last.pre.restoredLive
              /\ last.meter.mLedgerReadByte = 0
              /\ last.meter.mLedgerWriteByte = 0
              /\ last.meter.rentChanges = <<>>

\* A restore whose keys are all live, one of them in its last live ledger.
C4_Witness ==
    /\ last.kind = "restore" /\ last.code = "SUCCESS" /\ ~last.closed
    /\ last.op.readWrite # <<>>
    /\ LiveKeys(last.op.readWrite, last.pre.ltx, last.seq) = Range(last.op.readWrite)
    /\ \E k \in Range(last.op.readWrite) : last.pre.ltx[getTTLKey(k)] = last.seq

\* The footprint of an operation, read-only keys first.
Footprint(op) == op.readOnly \o op.readWrite

\* A persistent key is archived before an operation: its TTL entry is
\* expired, or it has none and the key is in the hot archive.
Archived(pre, k, seq) ==
    /\ isPersistentEntry(k)
    /\ IF Has(pre.ltx, getTTLKey(k)) THEN ~isLive(pre.ltx[getTTLKey(k)], seq)
       ELSE /\ protocolVersionStartsFrom(ledgerVersion,
                   FIRST_PROTOCOL_SUPPORTING_PERSISTENT_EVICTION)
            /\ Has(pre.hot, k)

\* The key at position i of readWrite is listed for automatic restoration.
Marked(op, i) ==
    /\ protocolVersionStartsFrom(ledgerVersion,
           FIRST_PROTOCOL_SUPPORTING_PERSISTENT_EVICTION)
    /\ op.ext.v = 1
    /\ i \in op.ext.archivedSorobanEntries

RECURSIVE SumSeq(_)
SumSeq(q) == IF q = <<>> THEN 0 ELSE Head(q) + SumSeq(Tail(q))

\* The bytes of the entries of a footprint, wherever they are stored.
StoredBytes(pre, keys) ==
    SumSeq([i \in 1..Len(keys) |->
              IF Has(pre.ltx, keys[i]) THEN pre.ltx[keys[i]]
              ELSE IF Has(pre.hot, keys[i]) THEN pre.hot[keys[i]] ELSE 0])

\* The bytes of the entries (TTL entries apart) the host returns.
ReturnedBytes(out) ==
    SumSeq([i \in 1..Len(out.modified_ledger_entries) |->
              IF out.modified_ledger_entries[i].key.type = "TTL" THEN 0
              ELSE out.modified_ledger_entries[i].data])

\* The bytes of the events of an output, the return value included.
EventBytes(out) == SumSeq(out.contract_events) + out.result_value

\* A successful output that passes every check before the refundable fee.
PassesBeforeFee(op, out) ==
    /\ out.success
    /\ \A i \in 1..Len(out.modified_ledger_entries) :
          validateContractLedgerEntry(out.modified_ledger_entries[i].key,
                                      out.modified_ledger_entries[i].data)
    /\ ReturnedBytes(out) <= op.writeBytes
    /\ EventBytes(out) <= txMaxContractEventsSizeBytes

(* C5: an invoke with an archived key k in its read-write footprint, marked *)
(* for automatic restoration, with sufficient budget and refundable fee,   *)
(* whose host call succeeds without changing k, succeeds; k is then in the *)
(* LiveStore with its archived payload and the TTL                         *)
(* ledgerSeq + minPersistentTTL - 1, and after the commit k is absent from *)
(* the HotArchive.                                                         *)
C5_AutorestoreInvoke ==
    last.kind = "invoke" =>
        LET op == last.op
            out == last.out
            pre == last.pre
        IN \A i \in 1..Len(op.readWrite) :
             LET k == op.readWrite[i] IN
             ( /\ Has(pre.hot, k) /\ Archived(pre, k, last.seq)
               /\ Marked(op, i)
               /\ \A j \in 1..Len(op.readOnly) : ~Archived(pre, op.readOnly[j], last.seq)
               /\ \A j \in 1..Len(op.readWrite) :
                     Archived(pre, op.readWrite[j], last.seq) => Marked(op, j)
               /\ StoredBytes(pre, Footprint(op)) <= op.diskReadBytes )
             => /\ out # NotKept
                /\ ( /\ PassesBeforeFee(op, out)
                     /\ \E e \in Range(out.modified_ledger_entries) :
                           e.key = k /\ e.data = pre.hot[k]
                     /\ out.rent_fee + EventBytes(out) <= op.refundableFee )
                   => /\ last.code = "SUCCESS"
                      /\ ~last.closed =>
                            /\ Has(ltx, k) /\ ltx[k] = pre.hot[k]
                            /\ ltx[getTTLKey(k)] = last.seq + minPersistentTTL - 1
                            /\ k \in restoredHot
                      /\ (last.closed /\ ledgerSeq = last.seq + 1) =>
                            /\ Has(live, k) /\ live[k] = evictedPayload[k]
                            /\ live[getTTLKey(k)] = last.seq + minPersistentTTL - 1
                            /\ ~Has(hot, k)

\* Such an invoke is committed: the key was in the archive with payload 2.
C5_Witness ==
    /\ CommittedSuccess("invoke")
    /\ \E i \in 1..Len(last.op.readWrite) :
         /\ Has(last.pre.hot, last.op.readWrite[i])
         /\ last.pre.hot[last.op.readWrite[i]] = 2
         /\ Marked(last.op, i)
         /\ last.op.readWrite[i] \in last.rHot
         /\ Has(live, last.op.readWrite[i])

\* The operation with its footprint cut before position pos.
CutBefore(op, pos) ==
    IF pos <= Len(op.readOnly)
    THEN [op EXCEPT !.readOnly = SubSeq(op.readOnly, 1, pos - 1), !.readWrite = <<>>]
    ELSE [op EXCEPT !.readWrite = SubSeq(op.readWrite, 1, pos - Len(op.readOnly) - 1)]

(* C6: an invoke with an archived persistent key in its footprint that is  *)
(* read-only, or not marked for automatic restoration, or on a protocol    *)
(* without it, does not succeed: the key is not restored, the host is not  *)
(* invoked, the state is left as it was, and the code is EntryArchived     *)
(* when no earlier key of the footprint fails first.                       *)
C6_EntryArchived ==
    (last.kind = "invoke" /\ ~last.closed) =>
        LET op == last.op
            pre == last.pre
        IN \A pos \in 1..Len(Footprint(op)) :
             LET k == Footprint(op)[pos] IN
             ( /\ Archived(pre, k, last.seq)
               /\ \/ pos <= Len(op.readOnly)
                  \/ ~Marked(op, pos - Len(op.readOnly)) )
             => /\ last.code \in {"ENTRY_ARCHIVED", "RESOURCE_LIMIT_EXCEEDED"}
                /\ last.out = NotKept
                /\ k \notin last.rHot \cup last.rLive
                /\ k \notin restoredHot \cup restoredLive
                /\ ltx = pre.ltx
                /\ applyReads(NewHelper(pre.ltx), CutBefore(op, pos)).code = "NONE"
                     => last.code = "ENTRY_ARCHIVED"

\* An invoke ended EntryArchived on a read-only key of the hot archive whose
\* index is listed, after an earlier key was read.
C6_Witness ==
    /\ last.kind = "invoke" /\ last.code = "ENTRY_ARCHIVED" /\ ~last.closed
    /\ Len(last.op.readOnly) = 1 /\ Len(last.op.readWrite) = 1
    /\ Has(last.pre.hot, last.op.readOnly[1])
    /\ Marked(last.op, 1)

FailureCodes ==
    {"ENTRY_ARCHIVED", "RESOURCE_LIMIT_EXCEEDED", "TRAPPED", "INSUFFICIENT_REFUNDABLE_FEE"}

(* C7: an invoke that ends with a failure code (EntryArchived,             *)
(* ResourceLimitExceeded, Trapped, InsufficientRefundableFee) changes      *)
(* nothing: the ledger's view of the LiveStore and its restorations are as *)
(* before the operation, and the ledger commits the LiveStore and the      *)
(* HotArchive it would have committed without the operation.               *)
C7_FailureChangesNothing ==
    (last.kind = "invoke" /\ last.code \in FailureCodes) =>
        /\ ~last.closed =>
              /\ ltx = last.pre.ltx
              /\ restoredHot = last.pre.restoredHot
              /\ restoredLive = last.pre.restoredLive
              /\ live = last.pre.live
              /\ hot = last.pre.hot
        /\ (last.closed /\ ledgerSeq = last.seq + 1) =>
              /\ live = Evicted(last.pre.ltx, last.seq)
              /\ hot = ArchiveAfter(last.pre.hot, last.pre.ltx, last.seq,
                                     last.pre.restoredHot)

\* An invoke restored a key and wrote entries before it ran out of
\* refundable fee, and the ledger closed.
C7_Witness ==
    /\ last.kind = "invoke" /\ last.code = "INSUFFICIENT_REFUNDABLE_FEE"
    /\ last.closed
    /\ last.rHot # {}
    /\ last.out.modified_ledger_entries # <<>>

\* The host was invoked and reported more instructions than declared.
OverInstructions ==
    /\ last.kind = "invoke"
    /\ last.out # NotKept
    /\ last.out.cpu_insns > last.op.instructions

\* The operation left the ledger's view as it was.
ViewUnchanged ==
    /\ ltx = last.pre.ltx
    /\ restoredHot = last.pre.restoredHot
    /\ restoredLive = last.pre.restoredLive

(* C8 as stated: whenever the host reports cpu_insns above the declared    *)
(* instructions, whatever its success flag, the code is                    *)
(* ResourceLimitExceeded and the state is unchanged.                       *)
C8_AnyOutput ==
    (OverInstructions /\ ~last.closed) =>
        (last.code = "RESOURCE_LIMIT_EXCEEDED" /\ ViewUnchanged)

(* C8: whenever the host reports failure, without an internal error, and   *)
(* cpu_insns above the declared instructions, the code is                  *)
(* ResourceLimitExceeded and the state is unchanged.                       *)
C8_FailedOutput ==
    ( /\ OverInstructions /\ ~last.closed
      /\ ~last.out.success /\ ~last.out.is_internal_error )
    => (last.code = "RESOURCE_LIMIT_EXCEEDED" /\ ViewUnchanged)

\* A failed call over its instructions and within its memory, after a key
\* was restored for it.
C8_Witness ==
    /\ OverInstructions /\ ~last.closed
    /\ ~last.out.success /\ ~last.out.is_internal_error
    /\ last.out.mem_bytes <= txMemoryLimit
    /\ last.rHot # {}
    /\ last.code = "RESOURCE_LIMIT_EXCEEDED"

(* C9: an invoke whose host call succeeds and passes every earlier check   *)
(* ends InsufficientRefundableFee exactly when the declared refundable fee *)
(* does not cover the rent fee and the event bytes (the return value       *)
(* included), and ends in success otherwise.                               *)
C9_RefundableFee ==
    ( /\ last.kind = "invoke" /\ last.out # NotKept
      /\ PassesBeforeFee(last.op, last.out) )
    => last.code =
         IF consumeRefundableSorobanResources(last.op.refundableFee,
                EventBytes(last.out), last.out.rent_fee)
         THEN "SUCCESS" ELSE "INSUFFICIENT_REFUNDABLE_FEE"

\* The fee covers the rent and the events and falls short by the return value.
C9_Witness ==
    /\ last.kind = "invoke" /\ last.code = "INSUFFICIENT_REFUNDABLE_FEE"
    /\ last.out.rent_fee + SumSeq(last.out.contract_events) <= last.op.refundableFee
    /\ last.out.result_value > 0

\* The budgets, no higher than an operation's and lower in at least one.
LowerBudgets(op) ==
    {b \in TightBudgets :
        /\ b.instructions <= op.instructions
        /\ b.diskReadBytes <= op.diskReadBytes
        /\ b.writeBytes <= op.writeBytes
        /\ b.refundableFee <= op.refundableFee
        /\ \/ b.instructions < op.instructions
           \/ b.diskReadBytes < op.diskReadBytes
           \/ b.writeBytes < op.writeBytes
           \/ b.refundableFee < op.refundableFee}

\* The operation with the budgets b in place of its own.
WithBudgets(op, b) ==
    [op EXCEPT !.instructions = b.instructions, !.diskReadBytes = b.diskReadBytes,
               !.writeBytes = b.writeBytes, !.refundableFee = b.refundableFee]

\* The operation fails when it is applied to the same state with the same
\* host output.
FailsAgain(kind, op, view, out) ==
    IF kind = "restore"
    THEN ~doCheckValidForSoroban(op) \/ ~restoreApply(view, op).ret
    ELSE LET c == applyReads(NewHelper(view), op) IN
         IF c.code # "NONE" THEN TRUE
         ELSE out # NotKept /\ ~applyOutput(c, op, out).ret

(* C10: an invoke or a restore that failed fails again on the same state,  *)
(* with the same host output, when any of its declared budgets is lowered: *)
(* lowering a budget never turns a failure into a success.                 *)
C10_BudgetMonotone ==
    ( /\ last.kind \in {"invoke", "restore"}
      /\ last.code # "SUCCESS"
      /\ ~last.closed )
    => \A b \in LowerBudgets(last.op) :
          FailsAgain(last.kind, WithBudgets(last.op, b), last.pre.ltx, last.out)

\* A restore ran out of write bytes on its second key, and a lower budget
\* of write bytes exists.
C10_Witness ==
    /\ last.kind = "restore" /\ last.code = "RESOURCE_LIMIT_EXCEEDED"
    /\ ~last.closed
    /\ last.meter.mLedgerReadByte <= last.op.diskReadBytes
    /\ last.meter.mLedgerWriteByte > last.op.writeBytes
    /\ \E b \in LowerBudgets(last.op) : b.writeBytes < last.op.writeBytes
    /\ Len(last.meter.rentChanges) = 1

\* The helper as the host call of the last invoke found it.
HelperAtCall == applyReads(NewHelper(last.pre.ltx), last.op)

\* The code of a failed host call, by the order of the tests.
FailedCallCode(op, out) ==
    IF out.is_internal_error THEN "EXCEPTION"
    ELSE IF out.cpu_insns > op.instructions THEN "RESOURCE_LIMIT_EXCEEDED"
    ELSE IF out.mem_bytes > txMemoryLimit THEN "RESOURCE_LIMIT_EXCEEDED"
    ELSE "TRAPPED"

(* C11: when the host reports failure, an internal error (an exception of  *)
(* the call included) ends the operation with an exception and no typed    *)
(* result; otherwise cpu_insns above the declared instructions gives       *)
(* ResourceLimitExceeded; otherwise mem_bytes above the memory limit gives *)
(* ResourceLimitExceeded; otherwise the result is Trapped; and none of the *)
(* entries the host returned is written to the LedgerTxn.                  *)
C11_FailurePrecedence ==
    (last.kind = "invoke" /\ last.out # NotKept /\ ~last.out.success) =>
        /\ last.code = FailedCallCode(last.op, last.out)
        /\ applyOutput(HelperAtCall, last.op, last.out).ltx = HelperAtCall.ltx
        /\ ~last.closed => ViewUnchanged

\* The host reported an internal error, more instructions than declared
\* and a modified entry, and the operation ended with an exception.
C11_Witness ==
    /\ last.kind = "invoke" /\ last.out # NotKept /\ ~last.closed
    /\ ~last.out.success /\ last.out.is_internal_error
    /\ last.out.cpu_insns > last.op.instructions
    /\ last.out.modified_ledger_entries # <<>>
    /\ last.code = "EXCEPTION"

\* The keys an invoke may write: its readWrite keys and the TTL keys of its
\* footprint.
WritableKeys(op) ==
    Range(op.readWrite)
    \cup {getTTLKey(k) : k \in {f \in Range(Footprint(op)) : isSorobanEntry(f)}}

\* The keys on which two views differ.
Written(before, after) ==
    {k \in AllKeys :
        \/ Has(before, k) # Has(after, k)
        \/ (Has(before, k) /\ Has(after, k) /\ before[k] # after[k])}

ReturnedKeys(out) ==
    {out.modified_ledger_entries[i].key : i \in 1..Len(out.modified_ledger_entries)}

----------------------------------------------------------------------------
(* Properties of ArchivedStateConsistency.  Before the protocol that       *)
(* supports persistent eviction checkOnLedgerCommit returns at once, with  *)
(* no check made; the properties are those of the commits it checks.       *)

\* checkOnLedgerCommit returned and had made its checks.
Performed ==
    /\ commit.returned
    /\ protocolVersionStartsFrom(commit.in.lclLiveState.ledgerVersion,
                                 FIRST_PROTOCOL_SUPPORTING_PERSISTENT_EVICTION)

Accepted == Performed /\ commit.res = NoFailure

\* The LiveStore and the archived entries of the HotArchive as of the last
\* closed ledger, and the ledger the commit closes.
LclLive == commit.in.lclLiveState.entries
LclArchived == preloadArchived(commit.in.lclHotArchiveState, DOMAIN commit.in.lclHotArchiveState)
NextLedgerSeq == commit.in.lclLiveState.ledgerSeq + 1

EvictedEntries == Range(commit.in.evictedFromLive)
DeletedTemps == {k \in commit.in.deletedKeysFromLive : isTemporaryEntry(k)}
DeletedTTLs == {k \in commit.in.deletedKeysFromLive : k.type = "TTL"}

\* The message of a failure of the eviction checks, which comes first in
\* the string returned, and of a failure of the restore checks, which
\* comes last.
FirstMessage == commit.res[1].msg
LastMessage == commit.res[Len(commit.res)].msg

(* C13: for every commit the invariant checks, the commit is accepted only *)
(* if the number of deleted temporary keys plus the number of evicted      *)
(* entries equals the number of deleted TTL keys; a commit where the       *)
(* numbers differ gets a failure.                                          *)
C13_CountIdentity ==
    Performed =>
        ( Cardinality(DeletedTemps) + Len(commit.in.evictedFromLive)
              # Cardinality(DeletedTTLs)
          => commit.res # NoFailure )

\* An evicted entry and a deleted temporary key pass their own checks, one
\* TTL key is deleted, and the counters give the failure.
C13_Witness ==
    /\ Performed
    /\ Len(commit.in.evictedFromLive) = 1
    /\ Cardinality(DeletedTemps) = 1
    /\ Cardinality(DeletedTTLs) = 1
    /\ commit.res # NoFailure
    /\ FirstMessage = "Number of TTLs evicted does not match number of data/code entries evicted"

\* The TTL entry of lk is in the LiveStore and expired at the closing ledger.
ExpiredInLcl(lk) ==
    /\ Has(LclLive, getTTLKey(lk))
    /\ LclLive[getTTLKey(lk)].data < NextLedgerSeq

(* C14: the invariant accepts a commit only if every evicted entry and     *)
(* every deleted temporary key has its TTL entry in the LiveStore of the   *)
(* last closed ledger, with liveUntilLedgerSeq below the sequence number   *)
(* of the closing ledger (lcl + 1); a missing TTL entry, or one with       *)
(* liveUntilLedgerSeq at or above it, gets a failure.                      *)
C14_EvictedExpired ==
    Accepted =>
        /\ \A e \in EvictedEntries : ExpiredInLcl(LedgerEntryKey(e))
        /\ \A k \in DeletedTemps : ExpiredInLcl(k)

\* A commit that evicts an entry and deletes a temporary key is accepted.
C14_Witness ==
    /\ Accepted
    /\ EvictedEntries # {}
    /\ DeletedTemps # {}

(* C15: the invariant accepts a commit only if every evicted key is in the *)
(* LiveStore of the last closed ledger and is not archived in its          *)
(* HotArchive; an evicted key that is archived already, or is not in the   *)
(* LiveStore, gets a failure.                                              *)
C15_EvictedFromLive ==
    Accepted =>
        \A e \in EvictedEntries :
            /\ Has(LclLive, LedgerEntryKey(e))
            /\ ~Has(LclArchived, LedgerEntryKey(e))

\* Two entries are evicted and the commit is accepted, the hot archive
\* holding nothing of theirs.
C15_Witness ==
    /\ Accepted
    /\ Len(commit.in.evictedFromLive) = 2
    /\ \A e \in EvictedEntries : ~Has(LclArchived, LedgerEntryKey(e))

\* An evicted entry that is not the entry the LiveStore holds under its key.
Stale(e) == Has(LclLive, LedgerEntryKey(e)) /\ LclLive[LedgerEntryKey(e)] # e

\* The commit with every stale evicted entry replaced by the LiveStore's.
Refreshed(in) ==
    [in EXCEPT !.evictedFromLive =
        [i \in 1..Len(in.evictedFromLive) |->
            IF Has(in.lclLiveState.entries, LedgerEntryKey(in.evictedFromLive[i]))
            THEN in.lclLiveState.entries[LedgerEntryKey(in.evictedFromLive[i])]
            ELSE in.evictedFromLive[i]]]

\* What checkOnLedgerCommit may return for a commit.
Verdicts(in) ==
    {checkOnLedgerCommit(in, d, a, l) :
        d \in Orders(in.deletedKeysFromLive),
        a \in Orders(DOMAIN in.restoredFromArchive),
        l \in Orders(DOMAIN in.restoredFromLiveState)}

(* C16: from protocol 24 on, a commit with an evicted entry that differs   *)
(* from the entry the LiveStore holds under its key gets a failure; at     *)
(* protocol 23 a stale evicted entry does not: the commit gets what it     *)
(* gets with the LiveStore's entry in its place.                           *)
C16_StaleEviction ==
    Performed =>
        IF protocolVersionStartsFrom(commit.in.lclLiveState.ledgerVersion, V_24)
        THEN (\E e \in EvictedEntries : Stale(e)) => commit.res # NoFailure
        ELSE commit.res \in Verdicts(Refreshed(commit.in))

\* At protocol 24 an evicted entry passes every other check and fails the
\* comparison with the LiveStore's entry.
C16_Witness ==
    /\ Performed
    /\ commit.in.lclLiveState.ledgerVersion = V_24
    /\ \E e \in EvictedEntries : Stale(e)
    /\ commit.res # NoFailure
    /\ FirstMessage = "Outdated entry evicted"

RestoredFromArchive == commit.in.restoredFromArchive
RestoredFromLive == commit.in.restoredFromLiveState

\* A restored-from-archive key whose entry differs from the archived entry
\* in data or in ext.
PayloadDiffers(k) ==
    /\ k.type # "TTL"
    /\ Has(LclArchived, k)
    /\ \/ LclArchived[k].data # RestoredFromArchive[k].data
       \/ LclArchived[k].ext # RestoredFromArchive[k].ext

\* The commit with the data and ext of the archived entry in every
\* restored-from-archive entry that has one.
PayloadRestored(in) ==
    LET archived == preloadArchived(in.lclHotArchiveState, DOMAIN in.lclHotArchiveState) IN
    [in EXCEPT !.restoredFromArchive =
        [k \in DOMAIN in.restoredFromArchive |->
            IF k.type # "TTL" /\ Has(archived, k)
            THEN [in.restoredFromArchive[k] EXCEPT !.data = archived[k].data,
                                                   !.ext = archived[k].ext]
            ELSE in.restoredFromArchive[k]]]

\* Whether checkOnLedgerCommit accepts a commit (the order of the
\* iterations decides which failure is returned, not whether one is).
Accepts(in) == NoFailure \in Verdicts(in)

\* Some failure of the commit cites the two entries.
CitesBoth(k) ==
    \E i \in 1..Len(commit.res) :
        commit.res[i].cites = <<RestoredFromArchive[k], LclArchived[k]>>

(* C17 as stated: the payload of a restored-from-archive entry is compared *)
(* with the archived entry from protocol 24 on only.  Below protocol 24 a  *)
(* difference in data or in ext fails nothing: the commit is accepted when *)
(* it is accepted with the archived payload in its place.  From protocol   *)
(* 24 on a difference in data or in ext gets a failure, and when the       *)
(* commit has no other fault the failure cites both entries.               *)
C17_PayloadComparedFromV24 ==
    Performed =>
        IF protocolVersionStartsFrom(commit.in.lclLiveState.ledgerVersion, V_24)
        THEN \A k \in DOMAIN RestoredFromArchive :
                PayloadDiffers(k) =>
                    /\ commit.res # NoFailure
                    /\ Accepts(PayloadRestored(commit.in)) => CitesBoth(k)
        ELSE (commit.res = NoFailure) = Accepts(PayloadRestored(commit.in))

\* The commit with the ext of the archived entry in every
\* restored-from-archive entry that has one.
ExtRestored(in) ==
    LET archived == preloadArchived(in.lclHotArchiveState, DOMAIN in.lclHotArchiveState) IN
    [in EXCEPT !.restoredFromArchive =
        [k \in DOMAIN in.restoredFromArchive |->
            IF k.type # "TTL" /\ Has(archived, k)
            THEN [in.restoredFromArchive[k] EXCEPT !.ext = archived[k].ext]
            ELSE in.restoredFromArchive[k]]]

(* C17 as the code has it: a difference in data gets a failure at every    *)
(* protocol the invariant checks; a difference in ext gets one from        *)
(* protocol 24 on and is ignored at protocol 23.                           *)
C17_DataComparedAlways ==
    Performed =>
        /\ \A k \in DOMAIN RestoredFromArchive :
              ( /\ PayloadDiffers(k)
                /\ \/ LclArchived[k].data # RestoredFromArchive[k].data
                   \/ protocolVersionStartsFrom(commit.in.lclLiveState.ledgerVersion, V_24) )
              => commit.res # NoFailure
        /\ ~protocolVersionStartsFrom(commit.in.lclLiveState.ledgerVersion, V_24)
              => (commit.res = NoFailure) = Accepts(ExtRestored(commit.in))

\* At protocol 23 a restored-from-archive entry with the data of another
\* entry, and no other fault in the commit, gets the failure.
C17_Witness ==
    /\ Performed
    /\ commit.in.lclLiveState.ledgerVersion = V_23
    /\ \E k \in DOMAIN RestoredFromArchive :
          /\ PayloadDiffers(k)
          /\ LclArchived[k].ext = RestoredFromArchive[k].ext
    /\ Accepts(PayloadRestored(commit.in))
    /\ commit.res # NoFailure
    /\ LastMessage = "Restored entry from archive has incorrect value"

\* The entry of a key with the lastModifiedLedgerSeq of another entry.
WithLastModifiedOf(entry, other) ==
    [entry EXCEPT !.lastModifiedLedgerSeq = other.lastModifiedLedgerSeq]

\* The commit with the lastModifiedLedgerSeq of the archived entry in every
\* restored-from-archive entry that has one.
LastModifiedRestored(in) ==
    LET archived == preloadArchived(in.lclHotArchiveState, DOMAIN in.lclHotArchiveState) IN
    [in EXCEPT !.restoredFromArchive =
        [k \in DOMAIN in.restoredFromArchive |->
            IF k.type # "TTL" /\ Has(archived, k)
            THEN WithLastModifiedOf(in.restoredFromArchive[k], archived[k])
            ELSE in.restoredFromArchive[k]]]

\* The entry of k in a map differs from its entry in a store in
\* lastModifiedLedgerSeq and in nothing else.
OnlyLastModifiedDiffers(restored, store, k) ==
    /\ Has(store, k)
    /\ restored[k] # store[k]
    /\ WithLastModifiedOf(restored[k], store[k]) = store[k]

(* C18: for every commit the invariant checks, a restored-from-live entry  *)
(* that differs from the LiveStore entry in lastModifiedLedgerSeq alone    *)
(* gets a failure, and the lastModifiedLedgerSeq of a restored-from-       *)
(* archive entry is ignored: the commit is accepted exactly when it is     *)
(* accepted with the archived entry's lastModifiedLedgerSeq in its place.  *)
C18_LastModified ==
    Performed =>
        /\ \A k \in DOMAIN RestoredFromLive :
              OnlyLastModifiedDiffers(RestoredFromLive, LclLive, k) => commit.res # NoFailure
        /\ (commit.res = NoFailure) = Accepts(LastModifiedRestored(commit.in))

\* A commit is accepted whose restored-from-archive entry differs from the
\* archived entry in lastModifiedLedgerSeq alone.
C18_Witness ==
    /\ Accepted
    /\ \E k \in DOMAIN RestoredFromArchive :
          k.type # "TTL" /\ OnlyLastModifiedDiffers(RestoredFromArchive, LclArchived, k)

\* Every key of a restore map that is no TTL key is a persistent contract
\* key and has its TTL key in the map.
RestoreMapPaired(restored) ==
    \A k \in DOMAIN restored :
        k.type # "TTL" =>
            /\ isSorobanEntry(k) /\ isPersistentEntry(k)
            /\ Has(restored, getTTLKey(k))

(* C19: the invariant accepts a commit only if every key of                *)
(* restoredFromArchive and of restoredFromLiveState that is no TTL key is  *)
(* a persistent contract key whose TTL key is in the same map; a restored  *)
(* temporary or classic key, or one without its TTL key in the same map,   *)
(* gets a failure.                                                         *)
C19_RestoredPersistentPaired ==
    Accepted => (RestoreMapPaired(RestoredFromArchive) /\ RestoreMapPaired(RestoredFromLive))

\* A commit that restores an entry and its TTL entry from the live state
\* is accepted.
C19_Witness ==
    /\ Accepted
    /\ \E k \in DOMAIN RestoredFromLive : k.type # "TTL"

(* C20: the invariant accepts a commit only if every key of                *)
(* restoredFromArchive, the TTL keys included, is absent from the          *)
(* LiveStore of the last closed ledger, and no key of                      *)
(* restoredFromLiveState is archived in the HotArchive.                    *)
C20_RestoredDisjoint ==
    Accepted =>
        /\ \A k \in DOMAIN RestoredFromArchive : ~Has(LclLive, k)
        /\ \A k \in DOMAIN RestoredFromLive : ~Has(LclArchived, k)

\* A commit that restores an entry and its TTL entry from the archive is
\* accepted.
C20_Witness ==
    /\ Accepted
    /\ \E k \in DOMAIN RestoredFromArchive : k.type # "TTL"
    /\ \E k \in DOMAIN RestoredFromArchive : k.type = "TTL"

----------------------------------------------------------------------------
(* The restorations of the appliers as the invariant sees them *)

\* The entry of key k in a store of the ledger, as the snapshot of the last
\* closed ledger gives it to the invariant.
SnapshotEntry(view, k) == LedgerEntry(k, view[k], 0, 0)

SnapshotEntries(view) == [k \in DOMAIN view |-> SnapshotEntry(view, k)]

\* restoredFromLiveState of the ledger being applied: for each key restored
\* from the live state, its entry and its TTL entry as they were before the
\* restoration.
ReportedFromLive ==
    [k \in restoredLive \cup {getTTLKey(d) : d \in restoredLive} |-> SnapshotEntry(live, k)]

\* The fourth loop of checkRestoreInvariants for one reported entry, made
\* against the last closed ledger, for the ledger being applied.
CheckReported(key, entry) ==
    checkRestoredFromLive(SnapshotEntries(live), SnapshotEntries(hot), key, entry, ledgerSeq)

\* The TTL entries of the live state that are not expired at the ledger
\* being applied.
StillLiveTTLs ==
    {t \in TTLKeys \cap DOMAIN live : isLive(live[t], ledgerSeq)}

\* C21: every key restored from the live state by a restore-footprint
\* operation or by the autorestore of an invoke had, in the LiveStore, a TTL
\* entry that is expired at the applying ledger (liveUntil < ledgerSeq), so
\* the entries reported in restoredFromLiveState pass the checks made of
\* restored-from-live entries, the expiry check of the TTL entry included;
\* a TTL entry of the LiveStore that is still live, reported as restored
\* from live, fails with "is not expired".
C21_RestoredFromLiveExpired ==
    /\ \A k \in restoredLive :
         /\ Has(live, getTTLKey(k))
         /\ ~isLive(live[getTTLKey(k)], ledgerSeq)
    /\ \A k \in DOMAIN ReportedFromLive :
         CheckReported(k, ReportedFromLive[k]) = NoFailure
    /\ \A t \in StillLiveTTLs :
         CheckReported(t, SnapshotEntry(live, t)) =
            Failure("Restored entry from live BucketList is not expired",
                    <<SnapshotEntry(live, t), SnapshotEntry(live, t)>>)

\* An operation restored a key from the live state, and the ledger holds a
\* TTL entry that is still live.
C21_Witness ==
    /\ last.kind \in {"invoke", "restore"}
    /\ last.code = "SUCCESS"
    /\ ~last.closed
    /\ last.rLive # {}
    /\ restoredLive # {}
    /\ StillLiveTTLs # {}

----------------------------------------------------------------------------
(* The close of a ledger as the invariant is given it *)

\* A snapshot of the hot archive: every entry of the ledger's archive is an
\* archived entry.
ArchivedSnapshot(archive) ==
    [k \in DOMAIN archive |-> HotArchiveArchived(SnapshotEntry(archive, k))]

\* The deltas of the ledger being closed. deletedKeysFromLive: the
\* temporary keys deleted and the TTL keys of all evicted entries.
DeletedAtClose ==
    LET gone == Archivable(ltx, ledgerSeq) \cup Deletable(ltx, ledgerSeq) IN
    Deletable(ltx, ledgerSeq) \cup {getTTLKey(g) : g \in gone}

\* evictedFromLive, in the order q of the eviction scan.
EvictedAtClose(q) == [i \in 1..Len(q) |-> SnapshotEntry(ltx, q[i])]

\* restoredFromArchive: the archived entry of each restored key, and its
\* new TTL entry.
RestoredAtClose ==
    [k \in restoredHot \cup {getTTLKey(d) : d \in restoredHot} |->
        IF k.type = "TTL" THEN LedgerEntry(k, restoredLiveUntilLedgerAt(ledgerSeq), 0, 0)
        ELSE SnapshotEntry(hot, k)]

\* The arguments of checkOnLedgerCommit for the ledger being closed, with
\* the snapshot of the stores liveState and archive at ledger seq.
CommitOfClose(liveState, archive, seq, q) ==
    [lclLiveState |-> [ledgerVersion |-> ledgerVersion, ledgerSeq |-> seq,
                       entries |-> SnapshotEntries(liveState)],
     lclHotArchiveState |-> ArchivedSnapshot(archive),
     evictedFromLive |-> EvictedAtClose(q),
     deletedKeysFromLive |-> DeletedAtClose,
     restoredFromArchive |-> RestoredAtClose,
     restoredFromLiveState |-> ReportedFromLive]

\* What checkOnLedgerCommit returns for the ledger being closed, over the
\* orders of the scan and of the iteration of the unordered maps.
ClosingVerdicts(liveState, archive, seq) ==
    {checkOnLedgerCommit(CommitOfClose(liveState, archive, seq, q), od, oa, ol) :
        q \in Orders(Archivable(ltx, ledgerSeq)),
        od \in Orders(DeletedAtClose),
        oa \in Orders(DOMAIN RestoredAtClose),
        ol \in Orders(DOMAIN ReportedFromLive)}

----------------------------------------------------------------------------
(* The startup scan *)

\* The keys present in both complete states.
InBoth == (DOMAIN startup.archived) \cap (DOMAIN startup.live)

\* C23: at a protocol that supports persistent eviction the startup scan
\* returns a failure exactly when some key is in both the complete live
\* state and the complete hot archive state, and the failure names such a
\* key (the least one); before that protocol it returns no failure,
\* whatever the two states hold.
C23_StartupScan ==
    startup.returned =>
        IF protocolVersionIsBefore(ledgerVersion, FIRST_PROTOCOL_SUPPORTING_PERSISTENT_EVICTION)
        THEN startup.res = NoFailure
        ELSE /\ (startup.res # NoFailure) <=> (InBoth # {})
             /\ startup.res # NoFailure =>
                  /\ Len(startup.res) = 1
                  /\ startup.res[1].cites[1] \in InBoth
                  /\ \A k \in InBoth : ~KeyLess(k, startup.res[1].cites[1])

\* The scan passed keys of both states before it found a key in both.
C23_Witness ==
    /\ startup.returned
    /\ startup.res # NoFailure
    /\ \E a \in DOMAIN startup.archived, l \in DOMAIN startup.live :
         /\ KeyLess(a, l)
         /\ KeyLess(l, startup.res[1].cites[1])
         /\ a \notin DOMAIN startup.live
         /\ l \notin DOMAIN startup.archived

----------------------------------------------------------------------------
(* The invariant manager *)

CheckEvents == {"operation", "bucket", "assume"}

\* The enabled invariants whose check the event runs unless an exception
\* ends it, in the order of mEnabled.
Checked(e) ==
    LET NotSkipped(name) == ~(e.kind = "operation" /\ skippedOnOperation(name, e.arg[1]))
    IN SelectSeq(e.pre.mEnabled, NotSkipped)

\* The positions of Checked(e) whose check fails.
Failing(e) == {i \in 1..Len(Checked(e)) : e.results[Checked(e)[i]] # ""}

\* The position of the first strict invariant that fails, or the length of
\* Checked(e) when none does.
LastRun(e) ==
    LET stops == {i \in Failing(e) : isStrict(Checked(e)[i])} IN
    IF stops = {} THEN Len(Checked(e))
    ELSE CHOOSE i \in stops : \A j \in stops : i <= j

\* C24: on every failed check the manager counts one failure and records
\* the ledger and the message as the last failure of the invariant, strict
\* or lax; a failed strict invariant then raises InvariantDoesNotHold and
\* no later invariant runs; after a failed lax invariant the remaining
\* enabled invariants still run for the same event.
C24_FailureHandling ==
    (manager.made /\ manager.event.kind \in CheckEvents) =>
        LET e == manager.event
            run == LastRun(e)
            failed == {i \in Failing(e) : i <= run}
            strictFailed == \E i \in failed : isStrict(Checked(e)[i])
        IN
        /\ e.ran = SubSeq(Checked(e), 1, run)
        /\ manager.mInvariantFailureCount = e.pre.mInvariantFailureCount + Cardinality(failed)
        /\ \A i \in failed :
             /\ Has(manager.mFailureInformation, Checked(e)[i])
             /\ manager.mFailureInformation[Checked(e)[i]] =
                  [lastFailedOnLedger |-> e.ledger,
                   lastFailedWithMessage |->
                       Message(Checked(e)[i], e.kind, e.results[Checked(e)[i]])]
        /\ \A name \in InvariantNames \ {Checked(e)[i] : i \in failed} :
             /\ Has(manager.mFailureInformation, name) = Has(e.pre.mFailureInformation, name)
             /\ Has(manager.mFailureInformation, name) =>
                  manager.mFailureInformation[name] = e.pre.mFailureInformation[name]
        /\ strictFailed <=> (e.error = "InvariantDoesNotHold" /\ manager.aborted)
        /\ ~strictFailed => (e.error = "none" /\ e.ran = Checked(e))

\* A lax invariant failed and the strict invariant after it failed: both
\* failures are counted, and the third invariant, which fails too, is not run.
C24_Witness ==
    /\ manager.made
    /\ manager.event.kind = "operation"
    /\ manager.event.error = "InvariantDoesNotHold"
    /\ Len(manager.event.ran) = 2
    /\ Len(manager.event.pre.mEnabled) = 3
    /\ ~isStrict(manager.event.ran[1])
    /\ manager.event.results[manager.event.ran[1]] # ""
    /\ manager.event.results[manager.event.pre.mEnabled[3]] # ""
    /\ manager.mInvariantFailureCount = manager.event.pre.mInvariantFailureCount + 2


\* The names a pattern of the model matches as a whole, case ignored, by
\* the rules of ECMAScript regular expressions.
MatchedBy(pattern) ==
    CASE pattern = <<".", "*">> -> InvariantNames
      [] pattern = <<"A", ".">> -> {AccountSubEntriesCountIsValid, ArchivedStateConsistency}
      [] pattern = <<"a", "C">> -> {AccountSubEntriesCountIsValid}
      [] pattern = <<"A", "c", "*">> -> {AccountSubEntriesCountIsValid}
      [] pattern = <<"A", "R">> -> {ArchivedStateConsistency}
      [] pattern = <<"e">> -> {EventsAreConsistentWithEntryDiffs}
      [] OTHER -> {}

\* The patterns that are not regular expressions.
NotARegex(pattern) == pattern = <<"*">>

\* C25: enableInvariant(pattern) raises an error exactly when the pattern is
\* empty, is not a valid regular expression, matches no registered
\* invariant, or matches an invariant that is already enabled; when it
\* raises none, the invariants it enables are exactly the registered
\* invariants whose whole name matches the pattern, case ignored, and the
\* invariants enabled before stay enabled, in their order.
C25_EnableByPattern ==
    (manager.made /\ manager.event.kind = "enable") =>
        LET e == manager.event
            matching == MatchedBy(e.arg) \cap e.pre.mInvariants
            before == Range(e.pre.mEnabled)
        IN
        /\ (e.error # "none") <=>
              \/ e.arg = <<>>
              \/ NotARegex(e.arg)
              \/ matching = {}
              \/ matching \cap before # {}
        /\ (e.arg = <<>> \/ NotARegex(e.arg)) => e.error = "invalid_argument"
        /\ e.error = "none" =>
              /\ Range(manager.mEnabled) = before \cup matching
              /\ Len(manager.mEnabled) = Len(e.pre.mEnabled) + Cardinality(matching)
              /\ SubSeq(manager.mEnabled, 1, Len(e.pre.mEnabled)) = e.pre.mEnabled

\* A pattern with a wildcard enabled two of the three registered
\* invariants, the third being enabled before.
C25_Witness ==
    /\ manager.made
    /\ manager.event.kind = "enable"
    /\ manager.event.error = "none"
    /\ manager.event.arg = <<"A", ".">>
    /\ manager.event.pre.mEnabled = <<EventsAreConsistentWithEntryDiffs>>
    /\ Len(manager.mEnabled) = 3

----------------------------------------------------------------------------
(* The validity check of RestoreFootprint *)

\* The persistent contract keys of the model: persistent contract data and
\* contract code.
PersistentContractKeys == {P1, P2}

\* C26: a restore-footprint operation is rejected as Malformed exactly when
\* its read-only footprint is not empty or its read-write footprint holds a
\* key that is not a persistent contract key; a malformed operation is not
\* applied: it reads, meters, restores and writes nothing.
C26_MalformedRestore ==
    last.kind = "restore" =>
        /\ (last.code = "MALFORMED") <=>
              \/ last.op.readOnly # <<>>
              \/ \E i \in 1..Len(last.op.readWrite) :
                   last.op.readWrite[i] \notin PersistentContractKeys
        /\ last.code = "MALFORMED" =>
              /\ last.rHot = {} /\ last.rLive = {}
              /\ last.meter.mLedgerReadByte = 0
              /\ last.meter.mLedgerWriteByte = 0
              /\ last.meter.rentChanges = <<>>
              /\ ~last.closed => /\ ltx = last.pre.ltx
                                 /\ restoredHot = last.pre.restoredHot
                                 /\ restoredLive = last.pre.restoredLive

\* A restore-footprint operation with an empty read-only footprint was
\* rejected for a temporary key listed after an archived persistent key.
C26_Witness ==
    /\ last.kind = "restore"
    /\ last.code = "MALFORMED"
    /\ last.op.readOnly = <<>>
    /\ last.op.readWrite = <<P1, T1>>
    /\ Has(last.pre.hot, P1)

----------------------------------------------------------------------------
(* What the on-commit check returns and what it raises *)

\* The evicted entries that are not persistent, by position.
NotPersistentAt ==
    {i \in 1..Len(commit.in.evictedFromLive) :
        ~isPersistentEntry(LedgerEntryKey(commit.in.evictedFromLive[i]))}

\* The parts of the returned string that are not the line break.
Diagnostics == {i \in 1..Len(commit.res) : commit.res[i].msg # "\n"}

\* C28 as stated: the check never raises an exception for a violating
\* delta, an evicted entry that is not persistent included.
C28_NeverRaises ==
    Performed => commit.res # Thrown

\* C28: a violation the on-commit check finds is returned as a non-empty
\* string that names the key or the entry (for the count identity, the
\* counts), except for an evicted entry that is not persistent: when the
\* loop over the evicted entries comes to it, releaseAssertOrThrow raises an
\* exception and nothing is returned. With persistent evicted entries only,
\* no exception is raised.
C28_DiagnosticOrException ==
    Performed =>
        /\ commit.res = Thrown => NotPersistentAt # {}
        /\ 1 \in NotPersistentAt => commit.res = Thrown
        /\ NotPersistentAt = {} => commit.res # Thrown
        /\ commit.res \notin {NoFailure, Thrown} =>
             /\ Diagnostics # {}
             /\ \A i \in Diagnostics : commit.res[i].cites # <<>>

\* The check came to an evicted temporary entry after a sound persistent
\* one, and raised the exception.
C28_Witness ==
    /\ Performed
    /\ commit.res = Thrown
    /\ Len(commit.in.evictedFromLive) = 2
    /\ isPersistentEntry(LedgerEntryKey(commit.in.evictedFromLive[1]))
    /\ isTemporaryEntry(LedgerEntryKey(commit.in.evictedFromLive[2]))

----------------------------------------------------------------------------
(* The order of the checks of an invoke *)

\* The helper after the readOnly keys of the last invoke, and after its
\* readWrite keys when those are read next.
AfterReadOnly == addReads(NewHelper(last.pre.ltx), last.op, last.op.readOnly, TRUE)
AfterReadWrite(ro) == addReads(ro, last.op, last.op.readWrite, FALSE)

\* The write loop over the entries the host returned, in their order.
AfterWrites(rw) == writeEntriesFrom([h |-> rw, createdKeys |-> {}, createdAndModifiedKeys |-> {}], last.op, last.out.modified_ledger_entries, 1)

\* The erase loop and then the loop over the events.
AfterErase(w) == eraseFrom(w.h, last.op.readWrite, w.createdAndModifiedKeys, 1)
AfterEvents(er) == emitEventsFrom(er, last.out.contract_events, 1)

\* The stage at which the last invoke ends and the code it ends with once
\* the host was called, the stages taken in the order of apply(): w, er and
\* ev are the helper after the writes, the erasures and the events.
Outcome(w, er, ev) ==
    IF ~last.out.success THEN <<"host", FailedCallCode(last.op, last.out)>>
    ELSE IF w.h.code # "NONE" THEN <<"writes", w.h.code>>
    ELSE IF ~createdKeysOk(w.createdKeys) THEN <<"created", "EXCEPTION">>
    ELSE IF er.code # "NONE" THEN <<"erase", er.code>>
    ELSE IF ev.code # "NONE" THEN <<"events", ev.code>>
    ELSE IF txMaxContractEventsSizeBytes < ev.mEmitEventByte + last.out.result_value
    THEN <<"result", "RESOURCE_LIMIT_EXCEEDED">>
    ELSE IF ~consumeRefundableSorobanResources(last.op.refundableFee, ev.mEmitEventByte + last.out.result_value, last.out.rent_fee)
    THEN <<"fee", "INSUFFICIENT_REFUNDABLE_FEE">>
    ELSE <<"done", "SUCCESS">>

\* The host was called for the last invoke.
HostCalled == last.out # NotKept

\* C29: the invoke applier reads every readOnly key, in declared order,
\* before any readWrite key, calls the host only when every key of the
\* footprint passed, and ends with the code of the first check that fails
\* in the order: footprint reads, failure of the host, writes of the
\* returned entries in their order, sizes of the events, size of the return
\* value, refundable fee; the checks after the failing one are not made
\* (their meters stay as they were).  The operation is looked at before the
\* ledger closes, while ledgerSeq is the ledger it was applied in.
C29_CheckOrder ==
    (last.kind = "invoke" /\ ~last.closed) =>
        LET ro == AfterReadOnly
            rw == AfterReadWrite(ro)
            w == AfterWrites(rw)
            er == AfterErase(w)
            ev == AfterEvents(er)
            o == Outcome(w, er, ev)
        IN
        /\ HostCalled <=> (ro.code = "NONE" /\ rw.code = "NONE")
        /\ (~HostCalled /\ ro.code # "NONE") =>
             /\ last.code = ro.code
             /\ last.meter = Meter(ro)
        /\ (~HostCalled /\ ro.code = "NONE") =>
             /\ last.code = rw.code
             /\ last.meter = Meter(rw)
        /\ HostCalled =>
             /\ last.code = o[2]
             /\ o[1] = "host" => last.meter = Meter(rw)
             /\ o[1] = "writes" =>
                  /\ last.meter.mLedgerWriteByte = w.h.mLedgerWriteByte
                  /\ last.meter.mEmitEventByte = 0
             /\ o[1] = "events" => last.meter.mEmitEventByte = ev.mEmitEventByte
             /\ o[1] \in {"result", "fee", "done"} =>
                  last.meter.mEmitEventByte = ev.mEmitEventByte + last.out.result_value

\* A readOnly key and a readWrite key both fail, with different codes: the
\* operation ended with the code of the readOnly key.
C29_Witness ==
    /\ last.kind = "invoke" /\ ~last.closed
    /\ ~HostCalled
    /\ AfterReadOnly.code = "ENTRY_ARCHIVED"
    /\ last.code = "ENTRY_ARCHIVED"
    /\ addReads(NewHelper(last.pre.ltx), last.op, last.op.readWrite, FALSE).code
          = "RESOURCE_LIMIT_EXCEEDED"

----------------------------------------------------------------------------
(* Expired temporary keys in the footprint of an invoke *)

\* The temporary keys of the last invoke's footprint whose TTL entry in the
\* state the operation found is expired.
ExpiredTemporaryKeys ==
    {lk \in Range(last.op.readOnly) \cup Range(last.op.readWrite) :
        /\ isTemporaryEntry(lk)
        /\ Has(last.pre.ltx, getTTLKey(lk))
        /\ ~isLive(last.pre.ltx[getTTLKey(lk)], last.seq)}

\* The state the operation found, without the entry of lk and its TTL entry.
WithoutKey(view, lk) == Del(Del(view, lk), getTTLKey(lk))

\* The helper at the host call had the operation found its state without lk.
HelperWithout(lk) == applyReads(NewHelper(WithoutKey(last.pre.ltx, lk)), last.op)

\* The persistent keys of the footprint that are archived: expired in the
\* live state, or in the hot archive from protocol 23 on.
ArchivedPersistentKeys ==
    {k \in Range(last.op.readOnly) \cup Range(last.op.readWrite) :
        /\ isPersistentEntry(k)
        /\ \/ /\ Has(last.pre.ltx, getTTLKey(k))
              /\ ~isLive(last.pre.ltx[getTTLKey(k)], last.seq)
           \/ /\ ~Has(last.pre.ltx, getTTLKey(k))
              /\ Has(last.pre.hot, k)}

\* C30: an invoke whose footprint (readOnly or readWrite) holds a temporary
\* key whose TTL entry in the live state is expired treats the key as
\* absent: no entry and no TTL entry of the key go to the host, the key is
\* not restored, the reads end as they would had the state not held the
\* key, and the operation ends with ENTRY_ARCHIVED only when a persistent
\* key of the footprint is archived.
C30_ExpiredTemporaryAbsent ==
    (last.kind = "invoke" /\ ~last.closed) =>
        \A lk \in ExpiredTemporaryKeys :
            LET c == HelperAtCall
                a == HelperWithout(lk)
            IN
            /\ lk \notin c.bufs
            /\ lk \notin c.rHot \cup c.rLive
            /\ lk \notin last.rHot \cup last.rLive
            /\ lk \notin restoredHot \cup restoredLive
            /\ c.code = a.code /\ c.bufs = a.bufs /\ Meter(c) = Meter(a)
            /\ c.rHot = a.rHot /\ c.rLive = a.rLive
            /\ WithoutKey(c.ltx, lk) = a.ltx
            /\ last.code = "ENTRY_ARCHIVED" => ArchivedPersistentKeys # {}

\* An invoke with an expired temporary key in readWrite and a live
\* persistent key in readOnly succeeded: the host was called.
C30_Witness ==
    /\ last.kind = "invoke" /\ ~last.closed
    /\ \E lk \in ExpiredTemporaryKeys : lk \in Range(last.op.readWrite)
    /\ last.op.readOnly # <<>>
    /\ last.out # NotKept
    /\ last.code = "SUCCESS"

----------------------------------------------------------------------------
(* The readWrite entries the host did not return *)

\* The keys of the entries the host returned for the last invoke.
ReturnedByHost == {e.key : e \in Range(last.out.modified_ledger_entries)}

\* The readWrite keys of the last invoke that the LedgerTxn of the operation
\* held when the host was called and that the host did not return.
Untouched(c) == {lk \in Range(last.op.readWrite) : Has(c.ltx, lk) /\ lk \notin ReturnedByHost}

\* C31: after a successful invoke every readWrite key that the operation's
\* LedgerTxn held and that is not among the entries the host returned is
\* deleted together with its TTL entry; when such a key is not a contract
\* entry the operation does not complete: it ends with an exception once
\* the writes have passed; and the erase step applied to a LedgerTxn that
\* holds such a contract entry without its TTL entry ends with an exception.
C31_EraseUntouched ==
    (last.kind = "invoke" /\ ~last.closed /\ HostCalled /\ last.out.success) =>
        LET c == HelperAtCall
            w == AfterWrites(c)
        IN
        /\ last.code = "SUCCESS" =>
             \A lk \in Untouched(c) : ~Has(ltx, lk) /\ ~Has(ltx, getTTLKey(lk))
        /\ (\E lk \in Untouched(c) : ~isSorobanEntry(lk)) =>
             /\ last.code # "SUCCESS"
             /\ ltx = last.pre.ltx
             /\ (w.h.code = "NONE" /\ createdKeysOk(w.createdKeys)) => last.code = "EXCEPTION"
        /\ \A lk \in Untouched(c) :
             isSorobanEntry(lk) =>
                eraseUntouched([c EXCEPT !.ltx = Del(c.ltx, getTTLKey(lk))], lk,
                               ReturnedByHost).code = "EXCEPTION"

\* A successful invoke left out a contract entry of readWrite that was
\* there, and returned another.
C31_Witness ==
    /\ last.kind = "invoke" /\ ~last.closed /\ HostCalled
    /\ last.code = "SUCCESS"
    /\ \E lk \in Untouched(HelperAtCall) : Has(last.pre.ltx, getTTLKey(lk))
    /\ ReturnedByHost # {}

----------------------------------------------------------------------------
(* The entries the host creates *)

\* The keys the host's output creates: returned, and not in the LedgerTxn
\* of the operation when the host was called.
CreatedByHost(c) == {k \in ReturnedByHost : ~Has(c.ltx, k)}

\* A created contract entry comes without a created TTL entry, or a created
\* entry is neither a contract entry nor a TTL entry.
BadlyCreated(c) ==
    \E k \in CreatedByHost(c) :
        \/ k.type \in {"CONTRACT_DATA", "CONTRACT_CODE"} /\ getTTLKey(k) \notin CreatedByHost(c)
        \/ k.type \notin {"CONTRACT_DATA", "CONTRACT_CODE", "TTL"}

\* C32: an invoke whose host output creates a persistent or temporary
\* contract entry without creating its TTL entry, or creates an entry that
\* is neither a contract entry nor a TTL entry, never ends in success and
\* changes nothing: it ends with an exception (the writes before the test
\* may end it with ResourceLimitExceeded first).
C32_CreatedWithTTL ==
    (last.kind = "invoke" /\ ~last.closed /\ HostCalled /\ last.out.success
        /\ BadlyCreated(HelperAtCall)) =>
        /\ last.code # "SUCCESS"
        /\ ltx = last.pre.ltx
        /\ AfterWrites(HelperAtCall).h.code = "NONE" => last.code = "EXCEPTION"
        /\ AfterWrites(HelperAtCall).h.code # "NONE" => last.code = "RESOURCE_LIMIT_EXCEEDED"

\* The host created a contract entry and no TTL entry, the writes passed,
\* and the operation ended with an exception.
C32_Witness ==
    /\ last.kind = "invoke" /\ ~last.closed /\ HostCalled
    /\ \E k \in CreatedByHost(HelperAtCall) :
          isSorobanEntry(k) /\ getTTLKey(k) \notin ReturnedByHost
    /\ AfterWrites(HelperAtCall).h.code = "NONE"
    /\ last.code = "EXCEPTION"

----------------------------------------------------------------------------
(* The size of the events and of the return value *)

\* The bytes of the first n events of the last invoke's output.
EventPrefixBytes(n) == SumSeq(SubSeq(last.out.contract_events, 1, n))

\* apply() reached the loop over the events: the host succeeded, the writes,
\* the asserts on the created keys and the erasures passed.
ReachedEvents ==
    /\ last.kind = "invoke" /\ ~last.closed /\ HostCalled /\ last.out.success
    /\ LET w == AfterWrites(HelperAtCall) IN
         /\ w.h.code = "NONE"
         /\ createdKeysOk(w.createdKeys)
         /\ AfterErase(w).code = "NONE"

\* C33: an invoke that reaches the events fails with ResourceLimitExceeded
\* when the bytes of the events so far exceed txMaxContractEventsSizeBytes
\* at some event, and also when the bytes of all events plus the size of
\* the return value exceed it; a total equal to the limit does not fail
\* with that code.
C33_EventLimit ==
    ReachedEvents =>
        LET n == Len(last.out.contract_events)
            over == \E i \in 1..n : EventPrefixBytes(i) > txMaxContractEventsSizeBytes
            total == EventPrefixBytes(n) + last.out.result_value
        IN
        /\ over => last.code = "RESOURCE_LIMIT_EXCEEDED"
        /\ total > txMaxContractEventsSizeBytes => last.code = "RESOURCE_LIMIT_EXCEEDED"
        /\ total <= txMaxContractEventsSizeBytes =>
              /\ last.code \in {"SUCCESS", "INSUFFICIENT_REFUNDABLE_FEE"}
              /\ last.meter.mEmitEventByte = total

\* The events stay within the limit and the return value brings the total
\* above it: the invoke failed.
C33_Witness ==
    /\ ReachedEvents
    /\ EventPrefixBytes(Len(last.out.contract_events)) = txMaxContractEventsSizeBytes
    /\ last.out.result_value > 0
    /\ last.code = "RESOURCE_LIMIT_EXCEEDED"

----------------------------------------------------------------------------
(* The write bytes of an invoke *)

\* The sizes of the first n entries the host returned, TTL entries apart.
NonTTLBytes(n) == ReturnedBytes([modified_ledger_entries |-> SubSeq(last.out.modified_ledger_entries, 1, n)])

\* The returned entry at i is too large for its type.
TooLarge(i) ==
    LET le == last.out.modified_ledger_entries[i] IN
    \/ le.key.type = "CONTRACT_CODE" /\ le.data > maxContractSizeBytes
    \/ le.key.type = "CONTRACT_DATA" /\ le.data > maxContractDataEntrySizeBytes

\* The returned entry at i brings the write bytes above the declared ones.
OverWriteBytes(i) ==
    /\ last.out.modified_ledger_entries[i].key.type # "TTL"
    /\ NonTTLBytes(i) > last.op.writeBytes

\* The returned entries at which the write loop stops.
WriteStops == {i \in 1..Len(last.out.modified_ledger_entries) : TooLarge(i) \/ OverWriteBytes(i)}

\* C34: while the entries the host returned are applied in their order, the
\* write-byte counter is the sum of the sizes of the entries processed so
\* far that are not TTL entries; the operation fails with
\* ResourceLimitExceeded at the first entry that brings this sum strictly
\* above the declared writeBytes (or is too large for its type, which is
\* tested before the entry is counted); TTL entries add nothing.
C34_WriteBytes ==
    (last.kind = "invoke" /\ ~last.closed /\ HostCalled /\ last.out.success) =>
        IF WriteStops = {}
        THEN last.meter.mLedgerWriteByte = NonTTLBytes(Len(last.out.modified_ledger_entries))
        ELSE LET f == CHOOSE i \in WriteStops : \A j \in WriteStops : i <= j IN
             /\ last.code = "RESOURCE_LIMIT_EXCEEDED"
             /\ last.meter.mLedgerWriteByte = IF TooLarge(f) THEN NonTTLBytes(f - 1) ELSE NonTTLBytes(f)
             /\ last.meter.mEmitEventByte = 0
             /\ ltx = last.pre.ltx

\* The host returned an entry and its TTL entry, the size of the entry is
\* the declared writeBytes, and the operation succeeded.
C34_Witness ==
    /\ last.kind = "invoke" /\ ~last.closed /\ HostCalled
    /\ last.code = "SUCCESS"
    /\ \E i \in 1..Len(last.out.modified_ledger_entries) :
          last.out.modified_ledger_entries[i].key.type = "TTL"
    /\ last.meter.mLedgerWriteByte = last.op.writeBytes

----------------------------------------------------------------------------
(* The disk-read bytes of an invoke *)

\* The key at position i of the last invoke's footprint, readOnly first.
KeyAt(i) == Footprint(last.op)[i]

\* The key at i is archived and not restored by the operation: it is
\* readOnly, or not listed for automatic restoration.
ArchivedStop(i) ==
    /\ Archived(last.pre, KeyAt(i), last.seq)
    /\ ~(i > Len(last.op.readOnly) /\ Marked(last.op, i - Len(last.op.readOnly)))

\* The contract entry at i is live in the state the operation found.
LiveContractEntry(i) ==
    /\ isSorobanEntry(KeyAt(i))
    /\ Has(last.pre.ltx, getTTLKey(KeyAt(i)))
    /\ last.pre.ltx[getTTLKey(KeyAt(i))] >= last.seq

\* The size of the entry the operation loads for the key at i: none for a
\* contract key that is neither live nor archived.
LoadedSize(i) ==
    IF ~isSorobanEntry(KeyAt(i)) \/ LiveContractEntry(i) \/ Archived(last.pre, KeyAt(i), last.seq)
    THEN StoredBytes(last.pre, <<KeyAt(i)>>)
    ELSE 0

\* What the key at i adds to the disk-read bytes: with automatic
\* restoration, nothing for a contract entry that is not archived.
DiskReadOf(i) ==
    IF /\ ledgerVersion >= AUTO_RESTORE_PROTOCOL_VERSION
       /\ isSorobanEntry(KeyAt(i))
       /\ ~Archived(last.pre, KeyAt(i), last.seq)
    THEN 0
    ELSE LoadedSize(i)

DiskReadUpTo(n) == SumSeq([i \in 1..n |-> DiskReadOf(i)])

\* The entry loaded for the key at i is too large for its type.
TooLargeRead(i) ==
    \/ KeyAt(i).type = "CONTRACT_CODE" /\ LoadedSize(i) > maxContractSizeBytes
    \/ KeyAt(i).type = "CONTRACT_DATA" /\ LoadedSize(i) > maxContractDataEntrySizeBytes

\* The positions of the footprint at which the reads stop.
ReadStops ==
    {i \in 1..Len(Footprint(last.op)) :
        ArchivedStop(i) \/ TooLargeRead(i) \/ DiskReadUpTo(i) > last.op.diskReadBytes}

\* C35: with automatic restoration (protocol 23 on) a live contract entry
\* of the footprint adds nothing to the disk-read bytes and one to the read
\* entries, classic entries and automatically restored entries add their
\* size; before, every entry of the footprint adds its size; the operation
\* fails with ResourceLimitExceeded the first time the disk-read bytes are
\* strictly above the declared diskReadBytes, and the host is called when
\* no key stops the reads.
C35_DiskRead ==
    (last.kind = "invoke" /\ ~last.closed) =>
        IF ReadStops = {}
        THEN /\ HostCalled
             /\ last.meter.mLedgerReadByte = DiskReadUpTo(Len(Footprint(last.op)))
             /\ HelperAtCall.mReadEntry = Len(Footprint(last.op))
        ELSE LET f == CHOOSE i \in ReadStops : \A j \in ReadStops : i <= j IN
             /\ ~HostCalled
             /\ last.code = IF ArchivedStop(f) THEN "ENTRY_ARCHIVED" ELSE "RESOURCE_LIMIT_EXCEEDED"
             /\ last.meter.mLedgerReadByte =
                  IF ArchivedStop(f) \/ TooLargeRead(f) THEN DiskReadUpTo(f - 1) ELSE DiskReadUpTo(f)

\* At protocol 23 the footprint holds a live contract entry and an entry
\* that is metered, the disk-read bytes are exactly the declared ones, and
\* the host was called.
C35_Witness ==
    /\ last.kind = "invoke" /\ ~last.closed /\ HostCalled
    /\ ledgerVersion >= AUTO_RESTORE_PROTOCOL_VERSION
    /\ \E i \in 1..Len(Footprint(last.op)) : LiveContractEntry(i) /\ LoadedSize(i) > 0
    /\ last.meter.mLedgerReadByte = last.op.diskReadBytes

----------------------------------------------------------------------------
(* The counters of a restore *)

\* The last operation is a restore that passed the validity check.
RestoreApplied == last.kind = "restore" /\ ~last.closed /\ last.code # "MALFORMED"

\* The readWrite key at i is restored by the operation: it is archived.
ToRestore(i) == Archived(last.pre, last.op.readWrite[i], last.seq)

\* The size of the entries to restore among the first n readWrite keys, and
\* their number.
RestoreBytesUpTo(n) ==
    SumSeq([i \in 1..n |-> IF ToRestore(i) THEN StoredBytes(last.pre, <<last.op.readWrite[i]>>) ELSE 0])

RestoresUpTo(n) == Cardinality({i \in 1..n : ToRestore(i)})

\* The entry of the readWrite key at i is too large for its type.
TooLargeRestore(i) ==
    LET size == StoredBytes(last.pre, <<last.op.readWrite[i]>>) IN
    \/ last.op.readWrite[i].type = "CONTRACT_CODE" /\ size > maxContractSizeBytes
    \/ last.op.readWrite[i].type = "CONTRACT_DATA" /\ size > maxContractDataEntrySizeBytes

\* The readWrite keys at which the restore stops.
RestoreStops ==
    {i \in 1..Len(last.op.readWrite) :
        /\ ToRestore(i)
        /\ \/ RestoreBytesUpTo(i) > last.op.diskReadBytes
           \/ TooLargeRestore(i)
           \/ RestoreBytesUpTo(i) > last.op.writeBytes}

\* C36: a restore goes through its readWrite keys in declared order and
\* fails with ResourceLimitExceeded at the first key whose entry brings the
\* size of the entries to restore above diskReadBytes, or is too large, or
\* brings that size above writeBytes, tested in this order (the write bytes
\* are not counted when the read bytes fail); the keys that are skipped
\* (live, or in neither store) add nothing to the counters and no rent
\* change.
C36_RestoreBudget ==
    RestoreApplied =>
        LET n == Len(last.op.readWrite) IN
        IF RestoreStops = {}
        THEN /\ last.code \in {"SUCCESS", "INSUFFICIENT_REFUNDABLE_FEE"}
             /\ last.meter.mLedgerReadByte = RestoreBytesUpTo(n)
             /\ last.meter.mLedgerWriteByte = RestoreBytesUpTo(n)
             /\ Len(last.meter.rentChanges) = RestoresUpTo(n)
        ELSE LET f == CHOOSE i \in RestoreStops : \A j \in RestoreStops : i <= j IN
             /\ last.code = "RESOURCE_LIMIT_EXCEEDED"
             /\ last.meter.mLedgerReadByte = RestoreBytesUpTo(f)
             /\ last.meter.mLedgerWriteByte =
                  IF RestoreBytesUpTo(f) > last.op.diskReadBytes
                  THEN RestoreBytesUpTo(f - 1) ELSE RestoreBytesUpTo(f)
             /\ Len(last.meter.rentChanges) = RestoresUpTo(f - 1)
             /\ ltx = last.pre.ltx

\* A restore skipped its first key, whose entry is live, and failed at the
\* second, whose entry is larger than the declared diskReadBytes.
C36_Witness ==
    /\ RestoreApplied
    /\ Len(last.op.readWrite) = 2
    /\ ~ToRestore(1) /\ Has(last.pre.ltx, last.op.readWrite[1])
    /\ RestoreStops = {2}
    /\ last.meter.mLedgerReadByte > last.op.diskReadBytes
    /\ last.code = "RESOURCE_LIMIT_EXCEEDED"

----------------------------------------------------------------------------
(* What a failed enableInvariant leaves enabled *)

\* The last event is a call of enableInvariant that ended in an error.
EnableFailed ==
    manager.made /\ manager.event.kind = "enable" /\ manager.event.error # "none"

\* C37 as claimed: a call of enableInvariant that ends in an error leaves
\* the enabled invariants as they were.
C37_ErrorLeavesEnabled ==
    EnableFailed => manager.mEnabled = manager.event.pre.mEnabled

\* C37, what holds: a call of enableInvariant that ends in an error keeps
\* the invariants enabled before, in their order, and the registry; it
\* leaves the enabled list unchanged when the pattern is empty, invalid or
\* matches nothing; when the pattern matches an invariant that is already
\* enabled, the matching invariants that come before it in the order of
\* the names and were not enabled have been enabled.
C37_ErrorKeepsEarlier ==
    EnableFailed =>
        LET e == manager.event
            before == e.pre.mEnabled
            added == Range(manager.mEnabled) \ Range(before)
            matching == MatchedBy(e.arg) \cap e.pre.mInvariants
            again == matching \cap Range(before)
        IN
        /\ manager.mInvariants = e.pre.mInvariants
        /\ SubSeq(manager.mEnabled, 1, Len(before)) = before
        /\ Len(manager.mEnabled) = Len(before) + Cardinality(added)
        /\ (e.arg = <<>> \/ NotARegex(e.arg) \/ again = {}) => added = {}
        /\ again # {} =>
             added = {n \in matching : \A a \in again : NameLess(n, a)}

\* The pattern matched two registered invariants, the second of them
\* enabled before: the call ended in an error and left the first enabled.
C37_Witness ==
    /\ EnableFailed
    /\ manager.event.what = "already enabled"
    /\ Len(manager.mEnabled) = Len(manager.event.pre.mEnabled) + 1

----------------------------------------------------------------------------
(* The registry and the enabled list stay well formed *)

\* The last event is a call of registerInvariant.
Registered == manager.made /\ manager.event.kind = "register"

\* C38: after any sequence of registerInvariant and enableInvariant calls,
\* failed ones included, the enabled list holds no invariant twice and only
\* registered invariants, and the registry holds one invariant per name:
\* registering a name that is registered fails and changes no member of
\* the manager, registering a new name adds that name and nothing else.
C38_RegistryWellFormed ==
    manager.made =>
        /\ \A i, j \in DOMAIN manager.mEnabled :
             manager.mEnabled[i] = manager.mEnabled[j] => i = j
        /\ Range(manager.mEnabled) \subseteq manager.mInvariants
        /\ Registered =>
             LET e == manager.event IN
             /\ (e.error # "none") = (e.arg \in e.pre.mInvariants)
             /\ e.error # "none" =>
                  /\ Members(manager) = e.pre
                  /\ e.what = "already registered"
             /\ e.error = "none" =>
                  /\ manager.mInvariants = e.pre.mInvariants \cup {e.arg}
                  /\ manager.mEnabled = e.pre.mEnabled

\* A registered name is registered again, after calls of enableInvariant
\* that enabled all three invariants, not in the order of their names.
C38_Witness ==
    /\ Registered
    /\ manager.event.error # "none"
    /\ Len(manager.mEnabled) = 3
    /\ manager.mEnabled # SortedNames(manager.mInvariants)

----------------------------------------------------------------------------
(* The byte counters and the width of their type *)

\* An operation is metered and no budget test has failed.
MeteringPassed == metering.op # "none" /\ ~metering.failed

\* The counters hold the sums of the sizes.
CountersAreSums ==
    /\ metering.mLedgerReadByte = metering.read
    /\ metering.mLedgerWriteByte = metering.written
    /\ metering.mEmitEventByte = metering.emitted

\* No sum is above its budget.
SumsWithinBudgets ==
    /\ metering.read <= metering.diskReadBytes
    /\ metering.written <= metering.writeBytes
    /\ metering.emitted <= metering.txMaxContractEventsSizeBytes

----------------------------------------------------------------------------
(* Inflation conserves the funds *)

\* The last event applied an inflation operation.
InflationApplied == inflation.made /\ inflation.event = "apply"

\* The sum of the amounts of the payouts from the i-th on.
RECURSIVE SumPayouts(_, _)
SumPayouts(payouts, i) ==
    IF i > Len(payouts) THEN 0 ELSE payouts[i].amount + SumPayouts(payouts, i + 1)

\* The time the inflation with this sequence number is scheduled for.
ScheduledTime(inflationSeq) == INFLATION_START_TIME + inflationSeq * INFLATION_FREQUENCY

\* C40: a successful inflation operation at protocol 8 or later conserves
\* the funds: the payouts and the fee pool after it add up to the inflation
\* amount and the fee pool before it, the balances grow by the payouts,
\* totalCoins grows by the inflation amount and inflationSeq by one. An
\* inflation operation is applied before its scheduled time exactly when it
\* ends with INFLATION_NOT_TIME, and then the header and the balances are
\* as before.
C40_InflationConserves ==
    InflationApplied =>
        LET before == inflation.pre.lh
            after == inflation.lh
            inflationAmount == (before.totalCoins * 190721) \div 1000000000
            paid == SumPayouts(inflation.res.payouts, 1)
        IN
        /\ (inflation.res.code = "INFLATION_NOT_TIME")
             = (before.closeTime < ScheduledTime(before.inflationSeq))
        /\ inflation.res.code = "INFLATION_NOT_TIME" =>
             /\ after = before
             /\ inflation.accounts = inflation.pre.accounts
             /\ inflation.res.payouts = <<>>
        /\ (inflation.res.code = "INFLATION_SUCCESS" /\ ledgerVersion >= 8) =>
             /\ paid + after.feePool = inflationAmount + before.feePool
             /\ after.feePool >= 0
             /\ after.totalCoins = before.totalCoins + inflationAmount
             /\ after.inflationSeq = before.inflationSeq + 1
             /\ after.closeTime = before.closeTime
             /\ SumBalances(inflation.accounts, AccountIDs)
                  = SumBalances(inflation.pre.accounts, AccountIDs) + paid
             /\ \A i \in DOMAIN inflation.res.payouts :
                  LET p == inflation.res.payouts[i] IN
                  /\ p.amount > 0
                  /\ p.destination \in AccountIDs

\* A successful inflation at protocol 10 with two payouts, one of them cut
\* to the room the winner's liabilities leave, and a rest that goes back to
\* the fee pool.
C40_Witness ==
    /\ InflationApplied
    /\ ledgerVersion = 10
    /\ inflation.res.code = "INFLATION_SUCCESS"
    /\ Len(inflation.res.payouts) = 2
    /\ \E i \in 1..2 : /\ inflation.res.payouts[i].destination = "GA"
                       /\ inflation.res.payouts[i].amount = 50
    /\ inflation.lh.feePool > 0
    /\ inflation.pre.lh.feePool = 500



====
